---- MODULE Spec2Model ----
(***************************************************************************)
(* Log analyzer: the statistics calculator (js/stats.js) and the file      *)
(* loading of the Vue application (js/app.js).                             *)
(*                                                                         *)
(* JavaScript values are tagged records, so that a payload value can be a  *)
(* number, a boolean or a text under any key.  A text (a message, a        *)
(* symbol, a reason) is a sequence of tokens and String.includes is the    *)
(* search for a contiguous run of tokens, so "ETHUSDT" is <<"ETH","USDT">> *)
(* and includes('USDT') is decided by the search, not assumed.             *)
(***************************************************************************)
EXTENDS Integers, Sequences, FiniteSets, TLC

VARIABLES
    \* calculateSessionStats: one pass over the events of one session
    session,        \* the events the pass has consumed so far, in order
    stats,          \* the SessionStats object being filled
    orderMap,       \* order_id -> order info
    pairMap,        \* pair_id -> [usdtFilled, usdcFilled]
    pc,             \* "loop" | "done" | "raised"
    \* calculateAggregateStats
    aggSessions,    \* the list of sessions handed to the aggregate
    aggregate,      \* the value returned (NotComputed before the call)
    \* extractOrderDetails / extractOrdersBySession, run over the same events
    detailEvents,   \* the sessions' events the two extractions have consumed
    orders,         \* extractOrderDetails: the flat list
    flatMap,        \* extractOrderDetails: order_id -> index of its row in orders
    flatPending,    \* extractOrderDetails: pendingSubmits
    rows,           \* extractOrdersBySession: rows of the current session
    baseMap,        \* extractOrdersBySession: order_id -> base order info
    rowPending,     \* extractOrdersBySession: pendingSubmits
    result,         \* extractOrdersBySession: the entries pushed so far
    dpc,            \* "between" (sessions) | "in" (a session) | "done" | "raised"
    \* app.js refs
    fileInfo, rawContent, events, sessions, selectedAsset, isLoading,
    errorMessage,
    loads           \* the loadFile calls made so far: [file, at]

statsVars  == <<session, stats, orderMap, pairMap, pc>>
aggVars    == <<aggSessions, aggregate>>
detailVars == <<detailEvents, orders, flatMap, flatPending, rows, baseMap,
                rowPending, result, dpc>>
appVars    == <<fileInfo, rawContent, events, sessions, selectedAsset,
                isLoading, errorMessage, loads>>
vars       == <<statsVars, aggVars, detailVars, appVars>>

----------------------------------------------------------------------------
(* JavaScript values *)

Undef     == [t |-> "undef"]
Null      == [t |-> "null"]
NaN       == [t |-> "nan"]
Num(n)    == [t |-> "num", n |-> n]
Bool(b)   == [t |-> "bool", b |-> b]
Txt(s)    == [t |-> "str", s |-> s]
Date(d)   == [t |-> "date", d |-> d]

\* A number that is not an integer: the binary64 value m * 2^e, where m is
\* the significand as a sequence of bits, the most significant (a 1) first
Float(e, m) == [t |-> "float", e |-> e, m |-> m]

IsTxt(v) == v.t = "str"
IsNum(v) == v.t = "num"

\* ToBoolean
Truthy(v) ==
    CASE v.t = "num"  -> v.n # 0
      [] v.t = "bool" -> v.b
      [] v.t = "str"  -> v.s # <<>>
      [] v.t = "date" -> TRUE
      [] v.t = "float" -> TRUE
      [] OTHER        -> FALSE

\* a || b
Or(a, b) == IF Truthy(a) THEN a ELSE b

\* event.data.key: a key the payload does not hold reads as undefined
Get(data, key) == IF key \in DOMAIN data THEN data[key] ELSE Undef

\* String.prototype.includes on token texts
Includes(text, pat) ==
    \E i \in 1..(Len(text) - Len(pat) + 1) :
        SubSeq(text, i, i + Len(pat) - 1) = pat

\* event.message && event.message.includes(pat)
MsgHas(event, pat) == event.message # <<>> /\ Includes(event.message, pat)

\* A text that starts with digits parses to that number, any other text to NaN
LeadingNumber == ("0" :> 0) @@ ("7" :> 7)

\* parseFloat
ParseFloat(v) ==
    CASE v.t = "num" -> v
      [] v.t = "float" -> v
      [] v.t = "str" -> IF v.s # <<>> /\ v.s[1] \in DOMAIN LeadingNumber
                        THEN Num(LeadingNumber[v.s[1]]) ELSE NaN
      [] OTHER       -> NaN

\* ToPropertyKey: the text an object key becomes
KeyOf(v) ==
    CASE v.t = "num"  -> <<ToString(v.n)>>
      [] v.t = "bool" -> IF v.b THEN <<"true">> ELSE <<"false">>
      [] v.t = "str"  -> v.s
      [] OTHER        -> <<v.t>>

\* Map.set / obj[key] = value
Put(m, k, v) == [x \in (DOMAIN m) \cup {k} |-> IF x = k THEN v ELSE m[x]]

EmptyMap == [x \in {} |-> 0]

----------------------------------------------------------------------------
(* Number arithmetic: + and <= on non-negative binary64 values.  Sums of     *)
(* integers are exact; a sum with a Float is the exact sum rounded to the    *)
(* nearest value of SignificandBits bits, ties to even.                      *)

SignificandBits == 53

Zeros(n) == [i \in 1..n |-> 0]

\* the sum of two bit sequences of one length, one bit longer when it carries
AddBits(a, b) ==
    LET n == Len(a)
        carry[i \in 0..n] ==
            IF i = 0 THEN 0
            ELSE (a[n - i + 1] + b[n - i + 1] + carry[i - 1]) \div 2
        sum == [k \in 1..n |-> (a[k] + b[k] + carry[n - k]) % 2]
    IN  IF carry[n] = 1 THEN <<1>> \o sum ELSE sum

\* The leading SignificandBits bits of a sequence that starts with 1, rounded
\* to nearest, ties to even: one is added when the bits cut off are more than
\* half a unit, or half a unit after an odd last bit.  shift is the number of
\* bits cut off, one more when the rounding carried out.
RoundBits(bits) ==
    LET n    == Len(bits)
        keep == SubSeq(bits, 1, SignificandBits)
        rest == SubSeq(bits, SignificandBits + 1, n)
        up   == /\ rest # <<>>
                /\ rest[1] = 1
                /\ \/ keep[SignificandBits] = 1
                   \/ \E i \in 2..Len(rest) : rest[i] = 1
        inc  == AddBits(keep, Zeros(SignificandBits - 1) \o <<1>>)
    IN  IF ~up THEN [m |-> keep, shift |-> n - SignificandBits]
        ELSE IF Len(inc) > SignificandBits
        THEN [m |-> SubSeq(inc, 1, SignificandBits), shift |-> n - SignificandBits + 1]
        ELSE [m |-> inc, shift |-> n - SignificandBits]

RECURSIVE BitsOf(_)
\* the binary digits of a positive integer
BitsOf(n) == IF n = 0 THEN <<>> ELSE BitsOf(n \div 2) \o <<n % 2>>

\* a positive number as significand and exponent
AsFloat(v) ==
    IF v.t = "float" THEN v
    ELSE LET b == BitsOf(v.n)
         IN  Float(Len(b) - SignificandBits, b \o Zeros(SignificandBits - Len(b)))

\* x + y of two positive values: the exact sum in units of the smaller
\* exponent, rounded
FloatAdd(x, y) ==
    LET hi == IF x.e >= y.e THEN x ELSE y
        lo == IF x.e >= y.e THEN y ELSE x
        d  == hi.e - lo.e
        r  == RoundBits(AddBits(hi.m \o Zeros(d), Zeros(d) \o lo.m))
    IN  IF d > SignificandBits + 1 THEN hi ELSE Float(lo.e + r.shift, r.m)

IsZero(v) == v.t = "num" /\ v.n = 0

\* a + b
NumAdd(a, b) ==
    IF a.t = "num" /\ b.t = "num" THEN Num(a.n + b.n)
    ELSE IF IsZero(a) THEN b
    ELSE IF IsZero(b) THEN a
    ELSE FloatAdd(AsFloat(a), AsFloat(b))

\* a <= b
NumLE(a, b) ==
    IF a.t = "num" /\ b.t = "num" THEN a.n <= b.n
    ELSE IF IsZero(a) THEN TRUE
    ELSE IF IsZero(b) THEN FALSE
    ELSE LET x == AsFloat(a)
             y == AsFloat(b)
             D == {k \in 1..SignificandBits : x.m[k] # y.m[k]}
         IN  IF x.e # y.e THEN x.e < y.e
             ELSE IF D = {} THEN TRUE
             ELSE x.m[CHOOSE k \in D : \A j \in D : k <= j] = 0

\* The number a decimal text p/q with 0 < p < q parses to: the binary
\* expansion of p/q by long division, rounded
Nearest(p, q) ==
    LET k  == CHOOSE i \in 1..30 : 2^i * p >= q /\ 2^(i - 1) * p < q
        rem[i \in 0..SignificandBits] ==
            IF i = 0 THEN 2^k * p - q ELSE (2 * rem[i - 1]) % q
        bits == <<1>>
                \o [i \in 1..SignificandBits |-> (2 * rem[i - 1]) \div q]
                \o <<IF rem[SignificandBits] # 0 THEN 1 ELSE 0>>
        r    == RoundBits(bits)
    IN  Float(r.shift - k - SignificandBits - 1, r.m)

----------------------------------------------------------------------------
(* models.js: SessionStats, StrategySession *)

NewSessionStats ==
    [ runtime        |-> 0,
      spreadTriggers |-> 0,
      orderPairs     |-> [attempted |-> 0, succeeded |-> 0],
      orders         |-> [total |-> 0, accepted |-> 0, rejected |-> 0,
                          latencies |-> <<>>],
      fills          |-> [total |-> 0, partial |-> 0, full |-> 0,
                          totalQty |-> Num(0), usdtQty |-> Num(0),
                          usdcQty |-> Num(0),
                          prices |-> <<>>],
      fastChase      |-> [events |-> 0, successes |-> 0, retries |-> <<>>,
                          fallbackReasons |-> EmptyMap],
      errors         |-> [gtxRejections |-> 0, apiErrors |-> 0,
                          timeouts |-> 0, other |-> 0] ]

\* session.duration: endTime minus startTime, falling back to the last
\* event's timestamp when no stop marker was seen
Duration(s) ==
    IF s.endTime.t = "date" THEN s.endTime.d - s.startTime.d
    ELSE IF s.events # <<>> THEN s.events[Len(s.events)].timestamp.d - s.startTime.d
    ELSE 0

----------------------------------------------------------------------------
(* stats.js: processEvent *)

\* What one call leaves behind: the three objects it mutates, and whether it
\* ended by raising a TypeError (the mutations made before the raise stay).
Outcome(s, o, p, threw) ==
    [stats |-> s, orderMap |-> o, pairMap |-> p, threw |-> threw]

NewPair == [usdtFilled |-> FALSE, usdcFilled |-> FALSE]

\* if (!pairMap.has(id)) pairMap.set(id, {usdtFilled: false, usdcFilled: false})
EnsurePair(pm, id) == IF id \in DOMAIN pm THEN pm ELSE Put(pm, id, NewPair)

\* case 'SPREAD_MET'
OnSpreadMet(event, s, o, p) ==
    Outcome([s EXCEPT !.spreadTriggers = @ + 1], o, p, FALSE)

\* A submit that is counted only when it carries an order-id
OnOrderSubmitWithId(event, s, o, p) ==
    LET d == event.data
    IN  IF Truthy(Get(d, "order_id"))
        THEN Outcome([s EXCEPT !.orders.total = @ + 1],
                     Put(o, Get(d, "order_id"),
                         [ symbol    |-> Get(d, "symbol"),
                           side      |-> Get(d, "side"),
                           qty       |-> Get(d, "qty"),
                           price     |-> Get(d, "price"),
                           status    |-> "pending",
                           timestamp |-> event.timestamp,
                           pairId    |-> Get(d, "pair_id") ]),
                     p, FALSE)
        ELSE Outcome(s, o, p, FALSE)

\* case 'ORDER_SUBMIT'
OnOrderSubmit(event, s, o, p) ==
    LET d  == event.data
        s1 == [s EXCEPT !.orders.total = @ + 1]
        o1 == IF Truthy(Get(d, "order_id"))
              THEN Put(o, Get(d, "order_id"),
                       [ symbol    |-> Get(d, "symbol"),
                         side      |-> Get(d, "side"),
                         qty       |-> Get(d, "qty"),
                         price     |-> Get(d, "price"),
                         status    |-> "pending",
                         timestamp |-> event.timestamp,
                         pairId    |-> Get(d, "pair_id") ])
              ELSE o
    IN  Outcome(s1, o1, p, FALSE)

\* x && x.includes('GTX') raises when x is truthy and not a string
IncludesRaises(v) == Truthy(v) /\ ~IsTxt(v)

ValueHas(v, pat) == Truthy(v) /\ IsTxt(v) /\ Includes(v.s, pat)

\* case 'ORDER_RESPONSE'
OnOrderResponse(event, s, o, p) ==
    LET d          == event.data
        latency    == Get(d, "latency_ms")
        s1         == IF Truthy(latency)
                      THEN [s EXCEPT !.orders.latencies = Append(@, latency)]
                      ELSE s
        isAccepted == MsgHas(event, <<"Order", "accepted">>)
        isRejected == MsgHas(event, <<"Order", "rejected">>)
        id         == Get(d, "order_id")
        status     == Get(d, "status")
        error      == Get(d, "error")
        gtx        == ValueHas(error, <<"GTX">>) \/ MsgHas(event, <<"GTX">>)
        sRej       == [s1 EXCEPT !.orders.rejected = @ + 1]
        sGtx       == IF gtx THEN [sRej EXCEPT !.errors.gtxRejections = @ + 1]
                      ELSE sRej
    IN  IF ~Truthy(id) THEN Outcome(s1, o, p, FALSE)
        ELSE IF id \in DOMAIN o
        THEN IF isAccepted \/ status = Txt(<<"accepted">>) \/ status = Txt(<<"NEW">>)
             THEN Outcome([s1 EXCEPT !.orders.accepted = @ + 1],
                          [o EXCEPT ![id].status = "accepted"], p, FALSE)
             ELSE IF isRejected
             THEN LET o1 == [o EXCEPT ![id].status = "rejected"]
                  IN  IF IncludesRaises(error) THEN Outcome(sRej, o1, p, TRUE)
                      ELSE Outcome(sGtx, o1, p, FALSE)
             ELSE Outcome(s1, o, p, FALSE)
        ELSE IF isAccepted
        THEN Outcome([s1 EXCEPT !.orders.accepted = @ + 1], o, p, FALSE)
        ELSE IF isRejected
        THEN IF IncludesRaises(error) THEN Outcome(sRej, o, p, TRUE)
             ELSE Outcome(sGtx, o, p, FALSE)
        ELSE Outcome(s1, o, p, FALSE)

\* parseFloat(last_filled) || parseFloat(filled) || parseFloat(qty) || 0
FilledQty(d) ==
    Or(Or(Or(ParseFloat(Get(d, "last_filled")), ParseFloat(Get(d, "filled"))),
          ParseFloat(Get(d, "qty"))), Num(0))

\* let symbol = event.data.symbol || ''; then the two message fallbacks
FillSymbol(event) ==
    LET symbol == Or(Get(event.data, "symbol"), Txt(<<>>))
    IN  IF ~Truthy(symbol) /\ event.message # <<>>
        THEN IF Includes(event.message, <<"USDT", "order", "filled">>)
             THEN Txt(<<"USDT">>)
             ELSE IF Includes(event.message, <<"USDC", "order", "filled">>)
             THEN Txt(<<"USDC">>)
             ELSE symbol
        ELSE symbol

\* the price sample of a fill, <<>> when no price field is truthy
FillPrice(d) ==
    IF Truthy(Get(d, "price")) THEN <<ParseFloat(Get(d, "price"))>>
    ELSE IF Truthy(Get(d, "last_price")) THEN <<ParseFloat(Get(d, "last_price"))>>
    ELSE IF Truthy(Get(d, "fill_price")) THEN <<ParseFloat(Get(d, "fill_price"))>>
    ELSE <<>>

\* the leg a fill of an order with this symbol marks
MarkLeg(pair, symbol) ==
    IF ValueHas(symbol, <<"USDT">>) THEN [pair EXCEPT !.usdtFilled = TRUE]
    ELSE IF ValueHas(symbol, <<"USDC">>) THEN [pair EXCEPT !.usdcFilled = TRUE]
    ELSE pair

\* The order a fill event is correlated with: orderMap.get(event.data.order_id),
\* <<>> when the id is absent or unknown, else <<id>>
FillOrder(event, o) ==
    LET id == Get(event.data, "order_id")
    IN  IF Truthy(id) /\ id \in DOMAIN o THEN <<id>> ELSE <<>>

\* A fill that registers the order it names when the table does not know it
UpsertFillStatus(o, event, isPartial) ==
    LET id     == Get(event.data, "order_id")
        status == IF isPartial THEN "partial" ELSE "filled"
    IN  IF ~Truthy(id) THEN o
        ELSE IF id \in DOMAIN o THEN [o EXCEPT ![id].status = status]
        ELSE Put(o, id, [ symbol |-> Get(event.data, "symbol"), side |-> Undef,
                          qty |-> Undef, price |-> Undef, status |-> status,
                          timestamp |-> event.timestamp, pairId |-> Undef ])

\* order.status = isPartial ? 'partial' : 'filled', for a known order only
SetFillStatus(o, event, isPartial) ==
    LET found == FillOrder(event, o)
    IN  IF found = <<>> THEN o
        ELSE [o EXCEPT ![found[1]].status =
                  IF isPartial THEN "partial" ELSE "filled"]

\* case 'ORDER_FILL'
OnOrderFill(event, s, o, p) ==
    LET d         == event.data
        isPartial == MsgHas(event, <<"Partial", "fill">>)
        partial   == isPartial \/ Get(d, "fill_type") = Txt(<<"partial">>)
        filledQty == FilledQty(d)
        s1        == [s EXCEPT !.fills.total = @ + 1,
                               !.fills.partial = IF partial THEN @ + 1 ELSE @,
                               !.fills.full = IF partial THEN @ ELSE @ + 1,
                               !.fills.totalQty = NumAdd(@, filledQty)]
        symbol    == FillSymbol(event)
        s2        == IF Includes(symbol.s, <<"USDT">>)
                     THEN [s1 EXCEPT !.fills.usdtQty = NumAdd(@, filledQty)]
                     ELSE IF Includes(symbol.s, <<"USDC">>)
                     THEN [s1 EXCEPT !.fills.usdcQty = NumAdd(@, filledQty)]
                     ELSE s1
        s3        == [s2 EXCEPT !.fills.prices = @ \o FillPrice(d)]
        found     == FillOrder(event, o)
    IN  IF ~IsTxt(symbol) THEN Outcome(s1, o, p, TRUE)
        ELSE IF found = <<>>
        THEN Outcome(s3, SetFillStatus(o, event, isPartial), p, FALSE)
        ELSE LET o1    == SetFillStatus(o, event, isPartial)
                 order == o[found[1]]
             IN  IF ~Truthy(order.pairId) THEN Outcome(s3, o1, p, FALSE)
                 ELSE LET p1 == EnsurePair(p, order.pairId)
                      IN  IF IncludesRaises(order.symbol)
                          THEN Outcome(s3, o1, p1, TRUE)
                          ELSE Outcome(s3, o1,
                                   [p1 EXCEPT ![order.pairId] =
                                        MarkLeg(@, order.symbol)], FALSE)

\* case 'PARALLEL_ORDER' and case 'PAIR_LINK'
OnPairEvent(event, s, o, p) ==
    LET id == Get(event.data, "pair_id")
    IN  Outcome(s, o, IF Truthy(id) THEN EnsurePair(p, id) ELSE p, FALSE)

\* processFastChaseEvent
ProcessFastChaseEvent(event, s) ==
    LET msg    == event.message
        retry  == Get(event.data, "retry_count")
        reason == KeyOf(Or(Get(event.data, "reason"), Txt(<<"unknown">>)))
        fr     == s.fastChase.fallbackReasons
    IN  IF Includes(msg, <<"Entering", "fast", "chase", "mode">>)
        THEN [s EXCEPT !.fastChase.events = @ + 1]
        ELSE IF Includes(msg, <<"Fast", "chase", "completed", "successfully">>)
        THEN [s EXCEPT !.fastChase.successes = @ + 1,
                       !.fastChase.retries =
                           IF retry # Undef THEN Append(@, retry) ELSE @]
        ELSE IF \/ Includes(msg, <<"fallback">>)
                \/ Includes(msg, <<"Fallback">>)
                \/ Includes(msg, <<"FALLBACK">>)
        THEN [s EXCEPT !.fastChase.fallbackReasons =
                  Put(fr, reason, (IF reason \in DOMAIN fr THEN fr[reason] ELSE 0) + 1)]
        ELSE s

\* An ORDER_STATE that is not counted when the order it names was already
\* rejected by a response
OnOrderStateOnce(event, s, o, p) ==
    LET id == Get(event.data, "order_id")
    IN  IF /\ MsgHas(event, <<"GTX", "rejected">>)
           /\ ~(id \in DOMAIN o /\ o[id].status = "rejected")
        THEN Outcome([s EXCEPT !.errors.gtxRejections = @ + 1], o, p, FALSE)
        ELSE Outcome(s, o, p, FALSE)

\* case 'ORDER_STATE'
OnOrderState(event, s, o, p) ==
    IF MsgHas(event, <<"GTX", "rejected">>)
    THEN Outcome([s EXCEPT !.errors.gtxRejections = @ + 1], o, p, FALSE)
    ELSE Outcome(s, o, p, FALSE)

\* default:
OnOtherEvent(event, s, o, p) ==
    IF event.level = "ERROR"
    THEN IF MsgHas(event, <<"timeout">>)
         THEN Outcome([s EXCEPT !.errors.timeouts = @ + 1], o, p, FALSE)
         ELSE IF MsgHas(event, <<"API">>)
         THEN Outcome([s EXCEPT !.errors.apiErrors = @ + 1], o, p, FALSE)
         ELSE Outcome([s EXCEPT !.errors.other = @ + 1], o, p, FALSE)
    ELSE Outcome(s, o, p, FALSE)

ProcessEvent(event, s, o, p) ==
    IF event.category = "" THEN Outcome(s, o, p, FALSE)
    ELSE CASE event.subcategory = "SPREAD_MET"     -> OnSpreadMet(event, s, o, p)
           [] event.subcategory = "ORDER_SUBMIT"   -> OnOrderSubmit(event, s, o, p)
           [] event.subcategory = "ORDER_RESPONSE" -> OnOrderResponse(event, s, o, p)
           [] event.subcategory = "ORDER_FILL"     -> OnOrderFill(event, s, o, p)
           [] event.subcategory = "PARALLEL_ORDER" -> OnPairEvent(event, s, o, p)
           [] event.subcategory = "PAIR_LINK"      -> OnPairEvent(event, s, o, p)
           [] event.subcategory = "FAST_CHASE"     ->
                  Outcome(ProcessFastChaseEvent(event, s), o, p, FALSE)
           [] event.subcategory = "BALANCE"        -> Outcome(s, o, p, FALSE)
           [] event.subcategory = "ORDER_STATE"    -> OnOrderState(event, s, o, p)
           [] event.subcategory = "ORDER_CANCEL"   -> Outcome(s, o, p, FALSE)
           [] event.subcategory = "ORDER_TIMEOUT"  ->
                  Outcome([s EXCEPT !.errors.timeouts = @ + 1], o, p, FALSE)
           [] OTHER                                -> OnOtherEvent(event, s, o, p)

----------------------------------------------------------------------------
(* stats.js: calculateSessionStats *)

\* A pair counted as succeeded as soon as one leg is filled
PairSucceededEither(pair) == pair.usdtFilled \/ pair.usdcFilled

\* if (pair.usdtFilled && pair.usdcFilled)
PairSucceeded(pair) == pair.usdtFilled /\ pair.usdcFilled

\* the loop over pairMap after the event pass
OrderPairStats(s, p) ==
    [s EXCEPT !.orderPairs =
        [ attempted |-> s.orderPairs.attempted + Cardinality(DOMAIN p),
          succeeded |-> s.orderPairs.succeeded
                        + Cardinality({k \in DOMAIN p : PairSucceeded(p[k])}) ]]

\* What a call gives its caller: a value, or the TypeError it raised
Raised      == [ok |-> FALSE]
Returned(v) == [ok |-> TRUE, value |-> v]

\* const stats = new SessionStats(); stats.runtime = session.duration; and
\* the two empty maps
StartOfPass(sess) ==
    Outcome([NewSessionStats EXCEPT !.runtime = Duration(sess)],
            EmptyMap, EmptyMap, FALSE)

RECURSIVE PassFrom(_, _, _)
\* for (const event of session.events) this.processEvent(...), left at a raise
PassFrom(evs, i, acc) ==
    IF i > Len(evs) \/ acc.threw THEN acc
    ELSE PassFrom(evs, i + 1,
                  ProcessEvent(evs[i], acc.stats, acc.orderMap, acc.pairMap))

CalculateSessionStats(sess) ==
    LET r == PassFrom(sess.events, 1, StartOfPass(sess))
    IN  IF r.threw THEN Raised ELSE Returned(OrderPairStats(r.stats, r.pairMap))

----------------------------------------------------------------------------
(* Events fed to the statistics pass *)

\* Number of events of a session in the specifications of the pass
MaxEvents == 4

Ev(sub, msg, data) ==
    [ category |-> "AUDIT", subcategory |-> sub, level |-> "INFO",
      asset |-> "ETH", message |-> msg, data |-> data, timestamp |-> Date(0) ]

ETHUSDT == Txt(<<"ETH", "USDT">>)
ETHUSDC == Txt(<<"ETH", "USDC">>)
P1      == Txt(<<"P1">>)

Submit(id, symbol) ==
    Ev("ORDER_SUBMIT", <<"Submitting", "order">>,
       [order_id |-> Num(id), symbol |-> symbol, side |-> Txt(<<"BUY">>),
        qty |-> Num(2)])

PairedSubmit(id, symbol) ==
    [Submit(id, symbol) EXCEPT !.data = [order_id |-> Num(id), symbol |-> symbol,
                                         pair_id |-> P1]]

FullFill(id) ==
    Ev("ORDER_FILL", <<"order", "filled">>, [order_id |-> Num(id), filled |-> Num(2)])

PartialFill(id, symbol) ==
    Ev("ORDER_FILL", <<"Partial", "fill">>,
       [order_id |-> Num(id), symbol |-> symbol, last_filled |-> Num(1)])

AnonymousFill ==
    Ev("ORDER_FILL", <<"USDC", "order", "filled">>, [filled |-> Num(2)])

PairLink ==
    Ev("PAIR_LINK", <<"Orders", "linked">>,
       [pair_id |-> P1, usdt_order |-> Num(1), usdc_order |-> Num(2)])

\* Orders 1 and 2 are the two legs; order 3 is never submitted
PairEvents ==
    { Submit(1, ETHUSDT), Submit(2, ETHUSDC),
      PairedSubmit(1, ETHUSDT), PairedSubmit(2, ETHUSDC), PairedSubmit(1, ETHUSDC),
      FullFill(1), PartialFill(2, ETHUSDC), PartialFill(3, ETHUSDT),
      AnonymousFill, PairLink }

----------------------------------------------------------------------------
(* The pass as a state machine: one step per event of the session *)

StatsInit ==
    /\ session = [ asset |-> "ETH", startTime |-> Date(0),
                   endTime |-> Date(10), events |-> <<>> ]
    /\ stats = StartOfPass(session).stats
    /\ orderMap = EmptyMap
    /\ pairMap = EmptyMap
    /\ pc = "loop"

\* one iteration of the loop of calculateSessionStats
StatsEvent(e) ==
    /\ pc = "loop"
    /\ LET event == [e EXCEPT !.timestamp = Date(Len(session.events) + 1)]
           r     == ProcessEvent(event, stats, orderMap, pairMap)
       IN  /\ session' = [session EXCEPT !.events = Append(@, event)]
           /\ stats' = r.stats
           /\ orderMap' = r.orderMap
           /\ pairMap' = r.pairMap
           /\ pc' = IF r.threw THEN "raised" ELSE "loop"
    /\ UNCHANGED <<aggVars, detailVars, appVars>>

\* the end of the loop: the pair statistics, and return stats
StatsReturn ==
    /\ pc = "loop"
    /\ stats' = OrderPairStats(stats, pairMap)
    /\ pc' = "done"
    /\ UNCHANGED <<session, orderMap, pairMap>>
    /\ UNCHANGED <<aggVars, detailVars, appVars>>

----------------------------------------------------------------------------
(* stats.js: calculateAggregateStats *)

\* A merge that overwrites the count of a reason instead of adding to it
MergeReasonsOverwrite(agg, add) ==
    [k \in (DOMAIN agg) \cup (DOMAIN add) |->
        IF k \in DOMAIN add THEN add[k] ELSE agg[k]]

\* for (const [reason, count] of Object.entries(...)): aggregate[reason] =
\* (aggregate[reason] || 0) + count
MergeReasons(agg, add) ==
    [k \in (DOMAIN agg) \cup (DOMAIN add) |->
        (IF k \in DOMAIN agg THEN agg[k] ELSE 0)
        + (IF k \in DOMAIN add THEN add[k] ELSE 0)]

\* the body of the loop over the sessions
AddStats(agg, ss) ==
    [ runtime        |-> agg.runtime + ss.runtime,
      spreadTriggers |-> agg.spreadTriggers + ss.spreadTriggers,
      orderPairs     |-> [ attempted |-> agg.orderPairs.attempted + ss.orderPairs.attempted,
                           succeeded |-> agg.orderPairs.succeeded + ss.orderPairs.succeeded ],
      orders         |-> [ total     |-> agg.orders.total + ss.orders.total,
                           accepted  |-> agg.orders.accepted + ss.orders.accepted,
                           rejected  |-> agg.orders.rejected + ss.orders.rejected,
                           latencies |-> agg.orders.latencies \o ss.orders.latencies ],
      fills          |-> [ total    |-> agg.fills.total + ss.fills.total,
                           partial  |-> agg.fills.partial + ss.fills.partial,
                           full     |-> agg.fills.full + ss.fills.full,
                           totalQty |-> NumAdd(agg.fills.totalQty, ss.fills.totalQty),
                           usdtQty  |-> NumAdd(agg.fills.usdtQty, ss.fills.usdtQty),
                           usdcQty  |-> NumAdd(agg.fills.usdcQty, ss.fills.usdcQty),
                           prices   |-> agg.fills.prices \o ss.fills.prices ],
      fastChase      |-> [ events    |-> agg.fastChase.events + ss.fastChase.events,
                           successes |-> agg.fastChase.successes + ss.fastChase.successes,
                           retries   |-> agg.fastChase.retries \o ss.fastChase.retries,
                           fallbackReasons |->
                               MergeReasons(agg.fastChase.fallbackReasons,
                                            ss.fastChase.fallbackReasons) ],
      errors         |-> [ gtxRejections |-> agg.errors.gtxRejections + ss.errors.gtxRejections,
                           apiErrors     |-> agg.errors.apiErrors + ss.errors.apiErrors,
                           timeouts      |-> agg.errors.timeouts + ss.errors.timeouts,
                           other         |-> agg.errors.other + ss.errors.other ] ]

RECURSIVE AggregateFrom(_, _, _)
\* for (const session of sessions), left at the first session whose pass raises
AggregateFrom(list, i, agg) ==
    IF i > Len(list) THEN Returned(agg)
    ELSE LET r == CalculateSessionStats(list[i])
         IN  IF r.ok THEN AggregateFrom(list, i + 1, AddStats(agg, r.value))
             ELSE Raised

CalculateAggregateStats(list) == AggregateFrom(list, 1, NewSessionStats)

\* Number of sessions handed to calculateAggregateStats
MaxSessions == 3

\* events in encounter order, stamped with their position
Stamp(evs) == [i \in 1..Len(evs) |-> [evs[i] EXCEPT !.timestamp = Date(i)]]

Sess(endTime, evs) ==
    [asset |-> "ETH", startTime |-> Date(0), endTime |-> endTime, events |-> Stamp(evs)]

Fallback(data) == Ev("FAST_CHASE", <<"Fast", "chase", "fallback", "triggered">>, data)

AggSessions ==
    { Sess(Date(5),
           << Ev("ORDER_RESPONSE", <<"Order", "accepted">>,
                 [order_id |-> Num(1), latency_ms |-> Num(12)]),
              Fallback([reason |-> Txt(<<"spread", "closed">>)]),
              PairLink >>),
      Sess(Null,
           << PairedSubmit(1, ETHUSDT),
              Ev("ORDER_FILL", <<"Partial", "fill">>,
                 [order_id |-> Num(1), symbol |-> ETHUSDT, last_filled |-> Num(1),
                  last_price |-> Num(3000)]),
              Fallback([reason |-> Txt(<<"spread", "closed">>)]),
              Ev("FAST_CHASE", <<"Fast", "chase", "completed", "successfully">>,
                 [retry_count |-> Num(2)]) >>),
      Sess(Date(3), <<>>),
      Sess(Date(4),
           << Fallback([other |-> Num(1)]),
              Ev("ORDER_TIMEOUT", <<"Order", "timeout">>, [order_id |-> Num(1)]),
              Ev("ORDER_RESPONSE", <<"Order", "rejected", "GTX">>,
                 [order_id |-> Num(2), latency_ms |-> Num(7)]),
              Ev("SPREAD_MET", <<"Spread", "condition", "met">>, [spread |-> Num(1)]) >>),
      Sess(Date(2),
           << Ev("ORDER_FILL", <<"Partial", "fill">>,
                 [order_id |-> Num(1), symbol |-> Bool(TRUE)]) >>),
      Sess(Null,
           << PairedSubmit(1, ETHUSDT), PairedSubmit(2, ETHUSDC), FullFill(1),
              Ev("ORDER_FILL", <<"USDC", "order", "filled">>,
                 [order_id |-> Num(2), filled |-> Num(2), price |-> Txt(<<"n/a">>)]) >>) }

NotComputed == [called |-> FALSE]

AggInit ==
    /\ aggSessions = <<>>
    /\ aggregate = NotComputed

\* the caller builds the list of (filtered) sessions
AggAddSession(s) ==
    /\ ~aggregate.called
    /\ Len(aggSessions) < MaxSessions
    /\ aggSessions' = Append(aggSessions, s)
    /\ UNCHANGED aggregate
    /\ UNCHANGED <<statsVars, detailVars, appVars>>

\* StatsCalculator.calculateAggregateStats(sessions)
AggCall ==
    /\ ~aggregate.called
    /\ aggregate' = [called |-> TRUE, result |-> CalculateAggregateStats(aggSessions)]
    /\ UNCHANGED aggSessions
    /\ UNCHANGED <<statsVars, detailVars, appVars>>

----------------------------------------------------------------------------
(* models.js: OrderDetail *)

\* new OrderDetail({timestamp, symbol, ..., pairId}): submitTime is the
\* timestamp given, the fill fields are absent until a fill is observed
NewOrderDetail(o) ==
    [ submitTime |-> o.timestamp, fillTime |-> Null, symbol |-> o.symbol,
      side |-> o.side, orderType |-> o.orderType, quantity |-> o.quantity,
      filledQty |-> Null, cumulativeFilled |-> Null, price |-> o.price,
      status |-> o.status, orderId |-> o.orderId, latency |-> o.latency,
      pairId |-> o.pairId, accumulated |-> Null ]

----------------------------------------------------------------------------
(* stats.js: what extractOrderDetails and extractOrdersBySession share *)

\* pendingSubmits.push({...}) of an ORDER_SUBMIT event
PendingSubmit(event) ==
    [ timestamp |-> event.timestamp,
      symbol    |-> Get(event.data, "symbol"),
      side      |-> Get(event.data, "side"),
      orderType |-> Or(Get(event.data, "type"), Txt(<<"LIMIT">>)),
      quantity  |-> Get(event.data, "qty"),
      price     |-> Get(event.data, "price") ]

\* A search that takes the latest pending submit of the symbol
FindSubmitLatest(pending, symbol) ==
    LET S == {i \in 1..Len(pending) : pending[i].symbol = symbol}
    IN  IF S = {} THEN 0 ELSE CHOOSE i \in S : \A j \in S : j <= i

\* pendingSubmits.findIndex(s => s.symbol === symbol), 0 when there is none
FindSubmit(pending, symbol) ==
    LET S == {i \in 1..Len(pending) : pending[i].symbol = symbol}
    IN  IF S = {} THEN 0 ELSE CHOOSE i \in S : \A j \in S : i <= j

\* array.splice(idx, 1)
RemoveAt(seq, idx) ==
    [i \in 1..(Len(seq) - 1) |-> IF i < idx THEN seq[i] ELSE seq[i + 1]]

\* isAccepted ? 'accepted' : (isRejected ? 'rejected' : 'unknown')
ResponseStatus(event) ==
    IF MsgHas(event, <<"Order", "accepted">>) THEN "accepted"
    ELSE IF MsgHas(event, <<"Order", "rejected">>) THEN "rejected"
    ELSE "unknown"

\* the OrderDetail of an ORDER_RESPONSE, from the submit matched to it
ResponseDetail(event, pending) ==
    LET symbol == Get(event.data, "symbol")
        idx    == FindSubmit(pending, symbol)
        found  == idx > 0
    IN  NewOrderDetail(
          [ timestamp |-> IF found THEN pending[idx].timestamp ELSE event.timestamp,
            symbol    |-> symbol,
            side      |-> IF found THEN pending[idx].side ELSE Null,
            orderType |-> IF found THEN pending[idx].orderType ELSE Txt(<<"LIMIT">>),
            quantity  |-> IF found THEN pending[idx].quantity ELSE Null,
            price     |-> IF found THEN pending[idx].price ELSE Null,
            status    |-> ResponseStatus(event),
            orderId   |-> Get(event.data, "order_id"),
            latency   |-> Or(Get(event.data, "latency_ms"), Null),
            pairId    |-> Null ])

\* pendingSubmits after the response took its submit
AfterMatch(event, pending) ==
    LET idx == FindSubmit(pending, Get(event.data, "symbol"))
    IN  IF idx > 0 THEN RemoveAt(pending, idx) ELSE pending

\* parseFloat(x) || 0
ParseFloatOr0(v) == Or(ParseFloat(v), Num(0))

\* Array.prototype.sort with the comparator key(a) - key(b): stable
SortByKey(seq, key) ==
    LET n       == Len(seq)
        Rank(i) == Cardinality({j \in 1..n :
                       key[j] < key[i] \/ (key[j] = key[i] /\ j <= i)})
    IN  [q \in 1..n |-> seq[CHOOSE i \in 1..n : Rank(i) = q]]

----------------------------------------------------------------------------
(* stats.js: extractOrderDetails, one iteration of its loop *)

Flat(o, m, pending) == [orders |-> o, orderMap |-> m, pendingSubmits |-> pending]

\* the row of a known order after a fill
FlatFill(detail, event) ==
    LET d  == event.data
        d1 == [detail EXCEPT !.fillTime = event.timestamp]
        d2 == IF Get(d, "last_filled") # Undef
              THEN [d1 EXCEPT !.filledQty = ParseFloatOr0(Get(d, "last_filled"))]
              ELSE d1
        d3 == IF Get(d, "accumulated") # Undef
              THEN [d2 EXCEPT !.accumulated = ParseFloatOr0(Get(d, "accumulated"))]
              ELSE d2
    IN  [d3 EXCEPT !.status =
            IF MsgHas(event, <<"Partial", "fill">>) THEN "partial" ELSE "filled"]

\* orders.push(detail); orderMap.set(orderId, detail)
FlatAddRow(o, m, detail) ==
    [orders |-> Append(o, detail), orderMap |-> Put(m, detail.orderId, Len(o) + 1)]

FlatEvent(event, o, m, pending) ==
    LET id == Get(event.data, "order_id")
    IN  CASE event.subcategory = "ORDER_SUBMIT" ->
                 Flat(o, m, Append(pending, PendingSubmit(event)))
          [] event.subcategory = "ORDER_RESPONSE" ->
                 IF ~Truthy(id) THEN Flat(o, m, pending)
                 ELSE LET a == FlatAddRow(o, m, ResponseDetail(event, pending))
                      IN  Flat(a.orders, a.orderMap, AfterMatch(event, pending))
          [] event.subcategory = "ORDER_FILL" ->
                 IF Truthy(id) /\ id \in DOMAIN m
                 THEN Flat([o EXCEPT ![m[id]] = FlatFill(@, event)], m, pending)
                 ELSE Flat(o, m, pending)
          [] OTHER -> Flat(o, m, pending)

\* A return of the flat list in encounter order
SortKeepsOrder(o) == o

\* orders.sort((a, b) => a.submitTime - b.submitTime)
SortBySubmitTime(o) == SortByKey(o, [i \in 1..Len(o) |-> o[i].submitTime.d])

----------------------------------------------------------------------------
(* stats.js: extractOrdersBySession, one iteration of its inner loop *)

BySession(r, m, pending) == [rows |-> r, orderMap |-> m, pendingSubmits |-> pending]

\* orderMap.set(orderId, {submitTime, symbol, ..., latency, status})
BaseOrder(detail) ==
    [ submitTime |-> detail.submitTime, symbol |-> detail.symbol,
      side |-> detail.side, orderType |-> detail.orderType,
      quantity |-> detail.quantity, price |-> detail.price,
      latency |-> detail.latency, status |-> detail.status ]

\* the fill row of an ORDER_FILL event
FillRow(event, m) ==
    LET d     == event.data
        id    == Get(d, "order_id")
        known == id \in DOMAIN m
        base  == m[id]
        row   == NewOrderDetail(
                   [ timestamp |-> IF known THEN base.submitTime ELSE event.timestamp,
                     symbol    |-> Or(Get(d, "symbol"), IF known THEN base.symbol ELSE Null),
                     side      |-> IF known THEN base.side ELSE Null,
                     orderType |-> IF known THEN base.orderType ELSE Txt(<<"LIMIT">>),
                     quantity  |-> IF known THEN base.quantity ELSE Null,
                     price     |-> Or(Get(d, "last_price"),
                                      Or(Get(d, "price"),
                                         IF known THEN base.price ELSE Null)),
                     status    |-> IF MsgHas(event, <<"Partial", "fill">>)
                                   THEN "partial" ELSE "filled",
                     orderId   |-> id,
                     latency   |-> IF known THEN base.latency ELSE Null,
                     pairId    |-> Null ])
    IN  [row EXCEPT !.fillTime = event.timestamp,
                    !.filledQty = ParseFloatOr0(Get(d, "last_filled")),
                    !.cumulativeFilled =
                        Or(ParseFloat(Get(d, "cumulative_filled")),
                           Or(ParseFloat(Get(d, "total_filled")), Num(0))),
                    !.accumulated = ParseFloatOr0(Get(d, "accumulated"))]

\* rows.findIndex(r => r.orderId === orderId && r.status === 'accepted'),
\* 0 when there is none
FindAccepted(r, id) ==
    LET S == {i \in 1..Len(r) : r[i].orderId = id /\ r[i].status = "accepted"}
    IN  IF S = {} THEN 0 ELSE CHOOSE i \in S : \A j \in S : i <= j

\* A removal that takes the first row of the order, whatever its status
RemoveFirstOfOrder(r, id) ==
    LET S == {i \in 1..Len(r) : r[i].orderId = id}
    IN  IF S = {} THEN r ELSE RemoveAt(r, CHOOSE i \in S : \A j \in S : i <= j)

\* if (acceptedIdx >= 0) rows.splice(acceptedIdx, 1)
RemoveAccepted(r, id) ==
    IF FindAccepted(r, id) > 0 THEN RemoveAt(r, FindAccepted(r, id)) ELSE r

\* const orderRow = rows.find(accepted row of the order); if (orderRow)
\* orderRow.status = status
SetAcceptedRow(r, id, status) ==
    IF FindAccepted(r, id) > 0
    THEN [r EXCEPT ![FindAccepted(r, id)].status = status] ELSE r

\* else if (event.subcategory === 'ORDER_STATE')
RowsOrderState(event, r, m, pending) ==
    LET id == Get(event.data, "order_id")
    IN  IF Truthy(id) /\ id \in DOMAIN m
        THEN IF MsgHas(event, <<"GTX", "rejected">>)
             THEN BySession(SetAcceptedRow(r, id, "rejected"),
                            [m EXCEPT ![id].status = "rejected"], pending)
             ELSE IF MsgHas(event, <<"canceled">>)
             THEN BySession(SetAcceptedRow(r, id, "canceled"),
                            [m EXCEPT ![id].status = "canceled"], pending)
             ELSE BySession(r, m, pending)
        ELSE BySession(r, m, pending)

\* else if (event.subcategory === 'PAIR_LINK')
RowsPairLink(event, r) ==
    [i \in 1..Len(r) |->
        IF \/ r[i].orderId = Get(event.data, "usdt_order")
           \/ r[i].orderId = Get(event.data, "usdc_order")
        THEN [r[i] EXCEPT !.pairId = Get(event.data, "pair_id")]
        ELSE r[i]]

RowsEvent(event, r, m, pending) ==
    LET id == Get(event.data, "order_id")
    IN  CASE event.subcategory = "ORDER_SUBMIT" ->
                 BySession(r, m, Append(pending, PendingSubmit(event)))
          [] event.subcategory = "ORDER_RESPONSE" ->
                 IF ~Truthy(id) THEN BySession(r, m, pending)
                 ELSE LET detail == ResponseDetail(event, pending)
                      IN  BySession(Append(r, detail), Put(m, id, BaseOrder(detail)),
                                    AfterMatch(event, pending))
          [] event.subcategory = "ORDER_FILL" ->
                 BySession(RemoveAccepted(Append(r, FillRow(event, m)), id), m, pending)
          [] event.subcategory = "ORDER_STATE" -> RowsOrderState(event, r, m, pending)
          [] event.subcategory = "PAIR_LINK" ->
                 BySession(RowsPairLink(event, r), m, pending)
          [] OTHER -> BySession(r, m, pending)

\* rows.sort by fillTime || submitTime
SortByFillTime(r) ==
    SortByKey(r, [i \in 1..Len(r) |-> Or(r[i].fillTime, r[i].submitTime).d])

\* the entry pushed for a session whose summary statistics are st
SessionEntry(sess, st, r) ==
    [ session |-> [asset |-> sess.asset, startTime |-> sess.startTime,
                   endTime |-> sess.endTime],
      stats   |-> [ spreadTriggers |-> st.spreadTriggers,
                    orderPairs |-> st.orderPairs,
                    orders |-> [total |-> st.orders.total,
                                accepted |-> st.orders.accepted,
                                rejected |-> st.orders.rejected],
                    fills |-> [total |-> st.fills.total,
                               totalQty |-> st.fills.totalQty,
                               usdtQty |-> st.fills.usdtQty,
                               usdcQty |-> st.fills.usdcQty] ],
      orders  |-> r ]

----------------------------------------------------------------------------
(* The two extractions as a state machine over the same sessions *)

\* Number of sessions, and of events over all of them, given to the extractions
MaxDetailSessions == 2
MaxDetailEvents == 3

RECURSIVE TotalLen(_)
TotalLen(list) == IF list = <<>> THEN 0 ELSE Len(Head(list)) + TotalLen(Tail(list))

Response(id, symbol, msg) ==
    Ev("ORDER_RESPONSE", msg, [order_id |-> Num(id), symbol |-> symbol,
                               latency_ms |-> Num(12)])

OrderState(id, msg) == Ev("ORDER_STATE", msg, [order_id |-> Num(id)])

DetailEventSet ==
    { Submit(1, ETHUSDT),
      Response(1, ETHUSDT, <<"Order", "accepted">>),
      Response(1, ETHUSDT, <<"Order", "response">>),
      FullFill(1), PartialFill(1, ETHUSDT), PartialFill(3, ETHUSDT),
      OrderState(1, <<"Order", "canceled">>),
      OrderState(1, <<"Order", "expired", "(", "GTX", "rejected", ")">>),
      PairLink }

\* the StrategySession whose events are evs
DetailSession(evs) ==
    [asset |-> "ETH", startTime |-> Date(0), endTime |-> Null, events |-> evs]

DetailInit ==
    /\ detailEvents = <<>>
    /\ orders = <<>>
    /\ flatMap = EmptyMap
    /\ flatPending = <<>>
    /\ rows = <<>>
    /\ baseMap = EmptyMap
    /\ rowPending = <<>>
    /\ result = <<>>
    /\ dpc = "between"

\* A start of session that keeps the order table and the pending submits of
\* the session before
DetailBeginSessionKeepsTables ==
    /\ dpc = "between"
    /\ Len(detailEvents) < MaxDetailSessions
    /\ detailEvents' = Append(detailEvents, <<>>)
    /\ rows' = <<>>
    /\ dpc' = "in"
    /\ UNCHANGED <<orders, flatMap, flatPending, result, baseMap, rowPending>>
    /\ UNCHANGED <<statsVars, aggVars, appVars>>

\* for (const session of sessions): the by-session tables start empty
DetailBeginSession ==
    /\ dpc = "between"
    /\ Len(detailEvents) < MaxDetailSessions
    /\ detailEvents' = Append(detailEvents, <<>>)
    /\ rows' = <<>>
    /\ baseMap' = EmptyMap
    /\ rowPending' = <<>>
    /\ dpc' = "in"
    /\ UNCHANGED <<orders, flatMap, flatPending, result>>
    /\ UNCHANGED <<statsVars, aggVars, appVars>>

\* for (const event of session.events), in both extractions
DetailEvent(e) ==
    /\ dpc = "in"
    /\ TotalLen(detailEvents) < MaxDetailEvents
    /\ LET event == [e EXCEPT !.timestamp = Date(TotalLen(detailEvents) + 1)]
           f     == FlatEvent(event, orders, flatMap, flatPending)
           b     == RowsEvent(event, rows, baseMap, rowPending)
           n     == Len(detailEvents)
       IN  /\ detailEvents' = [detailEvents EXCEPT ![n] = Append(@, event)]
           /\ orders' = f.orders
           /\ flatMap' = f.orderMap
           /\ flatPending' = f.pendingSubmits
           /\ rows' = b.rows
           /\ baseMap' = b.orderMap
           /\ rowPending' = b.pendingSubmits
    /\ UNCHANGED <<result, dpc>>
    /\ UNCHANGED <<statsVars, aggVars, appVars>>

\* the end of a session: the rows are sorted, the summary is calculated and
\* the entry is pushed; a raise of calculateSessionStats ends
\* extractOrdersBySession, while extractOrderDetails returns its sorted list
DetailEndSession ==
    /\ dpc = "in"
    /\ LET sess == DetailSession(detailEvents[Len(detailEvents)])
           st   == CalculateSessionStats(sess)
       IN  /\ rows' = SortByFillTime(rows)
           /\ IF st.ok
              THEN /\ result' = Append(result, SessionEntry(sess, st.value, rows'))
                   /\ dpc' = "between"
                   /\ UNCHANGED orders
              ELSE /\ dpc' = "raised"
                   /\ orders' = SortBySubmitTime(orders)
                   /\ UNCHANGED result
    /\ UNCHANGED <<detailEvents, flatMap, flatPending, baseMap, rowPending>>
    /\ UNCHANGED <<statsVars, aggVars, appVars>>

\* after the last session: the flat list is sorted, both extractions return
DetailReturn ==
    /\ dpc = "between"
    /\ orders' = SortBySubmitTime(orders)
    /\ dpc' = "done"
    /\ UNCHANGED <<detailEvents, flatMap, flatPending, rows, baseMap, rowPending,
                   result>>
    /\ UNCHANGED <<statsVars, aggVars, appVars>>

----------------------------------------------------------------------------
(* parser.js: LogParser, as the specification describes it *)

StartMarker == <<"start_strategy", "called">>
StopMarkers == {<<"StrategyExecutorTask::run", "completed">>, <<"stop_strategy", "called">>}

\* A file's text is its lines; a line that fails the base grammar holds no event
Line(e)   == [valid |-> TRUE, event |-> e]
Garbage   == [valid |-> FALSE]

RECURSIVE ParseContent(_)
\* LogParser.parseContent: the events of the lines that parse, in order
ParseContent(content) ==
    IF content = <<>> THEN <<>>
    ELSE IF Head(content).valid
         THEN <<Head(content).event>> \o ParseContent(Tail(content))
         ELSE ParseContent(Tail(content))

IsStart(e) == e.category = "LIFECYCLE" /\ e.asset # "" /\ Includes(e.message, StartMarker)
IsStop(e)  == /\ e.category = "LIFECYCLE" /\ e.asset # ""
              /\ \E m \in StopMarkers : Includes(e.message, m)

\* A grouping that drops every event without an asset, whatever is open
GroupEventTaggedOnly(g, e) ==
    LET a == e.asset
    IN  IF IsStart(e)
        THEN [ out  |-> Append(g.out, [asset |-> a, startTime |-> e.timestamp,
                                       endTime |-> Null, config |-> e.data,
                                       events |-> <<e>>]),
               open |-> Put(g.open, a, Len(g.out) + 1) ]
        ELSE IF IsStop(e)
        THEN IF a \in DOMAIN g.open
             THEN [ out  |-> [g.out EXCEPT ![g.open[a]].endTime = e.timestamp,
                                           ![g.open[a]].events = Append(@, e)],
                    open |-> [x \in (DOMAIN g.open) \ {a} |-> g.open[x]] ]
             ELSE g
        ELSE IF a # "" /\ a \in DOMAIN g.open
        THEN [g EXCEPT !.out[g.open[a]].events = Append(@, e)]
        ELSE IF a # ""
        THEN [ out  |-> Append(g.out, [asset |-> a, startTime |-> e.timestamp,
                                       endTime |-> Null, config |-> EmptyMap,
                                       events |-> <<e>>]),
               open |-> Put(g.open, a, Len(g.out) + 1) ]
        ELSE g

\* one event of the grouping: g.open maps an asset to the index of its open
\* session in g.out
GroupEvent(g, e) ==
    LET a == e.asset
    IN  IF IsStart(e)
        THEN [ out  |-> Append(g.out, [asset |-> a, startTime |-> e.timestamp,
                                       endTime |-> Null, config |-> e.data,
                                       events |-> <<e>>]),
               open |-> Put(g.open, a, Len(g.out) + 1) ]
        ELSE IF IsStop(e)
        THEN IF a \in DOMAIN g.open
             THEN [ out  |-> [g.out EXCEPT ![g.open[a]].endTime = e.timestamp,
                                           ![g.open[a]].events = Append(@, e)],
                    open |-> [x \in (DOMAIN g.open) \ {a} |-> g.open[x]] ]
             ELSE g
        ELSE IF a # "" /\ a \in DOMAIN g.open
        THEN [g EXCEPT !.out[g.open[a]].events = Append(@, e)]
        ELSE IF a # ""
        THEN [ out  |-> Append(g.out, [asset |-> a, startTime |-> e.timestamp,
                                       endTime |-> Null, config |-> EmptyMap,
                                       events |-> <<e>>]),
               open |-> Put(g.open, a, Len(g.out) + 1) ]
        ELSE IF Cardinality(DOMAIN g.open) = 1
        THEN LET only == CHOOSE x \in DOMAIN g.open : TRUE
             IN  [g EXCEPT !.out[g.open[only]].events = Append(@, e)]
        ELSE g

RECURSIVE GroupFrom(_, _, _)
GroupFrom(evs, i, g) ==
    IF i > Len(evs) THEN g ELSE GroupFrom(evs, i + 1, GroupEvent(g, evs[i]))

\* LogParser.groupIntoSessions
GroupIntoSessions(evs) == GroupFrom(evs, 1, [out |-> <<>>, open |-> EmptyMap]).out

\* LogParser.extractAssets
ExtractAssets(evs) == {evs[i].asset : i \in 1..Len(evs)} \ {""}

----------------------------------------------------------------------------
(* app.js: loadFile, parseContent *)

\* Number of loadFile calls
MaxLoads == 3

\* formatFileSize: bytes, or KB / MB with one decimal
FormatFileSize(bytes) ==
    LET Fixed1(n, unit) ==
            LET tenths == (20 * n + unit) \div (2 * unit)
            IN  <<ToString(tenths \div 10), ".", ToString(tenths % 10)>>
    IN  IF bytes < 1024 THEN <<ToString(bytes), "B">>
        ELSE IF bytes < 1024 * 1024 THEN Fixed1(bytes, 1024) \o <<"KB">>
        ELSE Fixed1(bytes, 1024 * 1024) \o <<"MB">>

\* fileInfo.value = {name, size, lastModified}; the date is the day of
\* file.lastModified
FileInfoOf(file) ==
    [ name |-> file.name, size |-> FormatFileSize(file.size),
      lastModified |-> file.lastModified \div 86400000 ]

LogLine(cat, sub, asset, msg, data, ts) ==
    Line([ category |-> cat, subcategory |-> sub, level |-> "INFO", asset |-> asset,
           message |-> msg, data |-> data, timestamp |-> Date(ts) ])

\* The files the user can pick
Files ==
    { [ name |-> "eth.log", size |-> 300, lastModified |-> 86400000,
        content |-> << LogLine("LIFECYCLE", "", "ETH", <<"start_strategy", "called">>,
                               [qty |-> Num(1)], 0),
                       LogLine("AUDIT", "SPREAD_MET", "ETH", <<"Spread", "condition", "met">>,
                               [spread |-> Num(1)], 1500),
                       LogLine("LIFECYCLE", "", "ETH",
                               <<"StrategyExecutorTask::run", "completed">>, EmptyMap, 5000) >> ],
      [ name |-> "btc.log", size |-> 2048, lastModified |-> 172800000,
        content |-> << Garbage,
                       LogLine("AUDIT", "ORDER_FILL", "BTC", <<"Partial", "fill">>,
                               [order_id |-> Num(1), last_filled |-> Num(1)], 10) >> ],
      [ name |-> "empty.log", size |-> 0, lastModified |-> 0, content |-> <<>> ] }

AppInit ==
    /\ fileInfo = Null
    /\ rawContent = <<>>
    /\ events = <<>>
    /\ sessions = <<>>
    /\ selectedAsset = "all"
    /\ isLoading = FALSE
    /\ errorMessage = <<>>
    /\ loads = <<>>

\* loadFile up to its await: handleFileSelect or handleDrop called it with file
LoadFile(file) ==
    /\ Len(loads) < MaxLoads
    /\ isLoading' = TRUE
    /\ errorMessage' = <<>>
    /\ loads' = Append(loads, [ file |-> file, at |-> "reading",
                                overlaps |-> \E j \in 1..Len(loads) :
                                                 loads[j].at = "reading" ])
    /\ UNCHANGED <<fileInfo, rawContent, events, sessions, selectedAsset>>
    /\ UNCHANGED <<statsVars, aggVars, detailVars>>

\* file.text() resolved: the rest of the try block, parseContent included, and
\* the finally block
ReadResolved(i) ==
    /\ loads[i].at = "reading"
    /\ rawContent' = loads[i].file.content
    /\ fileInfo' = FileInfoOf(loads[i].file)
    /\ events' = ParseContent(loads[i].file.content)
    /\ sessions' = GroupIntoSessions(events')
    /\ selectedAsset' = "all"
    /\ isLoading' = FALSE
    /\ loads' = [loads EXCEPT ![i].at = "done"]
    /\ UNCHANGED errorMessage
    /\ UNCHANGED <<statsVars, aggVars, detailVars>>

\* A catch block that also drops the text of the file shown
ReadRejectedClears(i) ==
    /\ loads[i].at = "reading"
    /\ errorMessage' = <<"Failed", "to", "load", "file:", "NotReadableError">>
    /\ isLoading' = FALSE
    /\ rawContent' = <<>>
    /\ loads' = [loads EXCEPT ![i].at = "failed"]
    /\ UNCHANGED <<fileInfo, events, sessions, selectedAsset>>
    /\ UNCHANGED <<statsVars, aggVars, detailVars>>

\* file.text() rejected: the catch block and the finally block
ReadRejected(i) ==
    /\ loads[i].at = "reading"
    /\ errorMessage' = <<"Failed", "to", "load", "file:", "NotReadableError">>
    /\ isLoading' = FALSE
    /\ loads' = [loads EXCEPT ![i].at = "failed"]
    /\ UNCHANGED <<fileInfo, rawContent, events, sessions, selectedAsset>>
    /\ UNCHANGED <<statsVars, aggVars, detailVars>>

\* the asset filter of the page writes the selectedAsset ref
SelectAsset(a) ==
    /\ a \in ExtractAssets(events) \cup {"all"}
    /\ a # selectedAsset
    /\ selectedAsset' = a
    /\ UNCHANGED <<fileInfo, rawContent, events, sessions, isLoading, errorMessage, loads>>
    /\ UNCHANGED <<statsVars, aggVars, detailVars>>

---------------------------------------------------------------------------------------------------------------------------------------------------
(* Specifications *)

Init == StatsInit /\ AggInit /\ DetailInit /\ AppInit

\* the loop of calculateSessionStats, fed from the event set evs, n events at most
Pass(evs, n) == \E e \in evs : Len(session.events) < n /\ StatsEvent(e)

\* calculateSessionStats over sessions of order, fill and pair events
PairPass == Pass(PairEvents, MaxEvents)

Next ==
    \/ PairPass
    \/ StatsReturn

Spec == Init /\ [][Next]_vars

\* Number of events of a session in SpecLink
MaxLinkEvents == 5

\* two orders whose submits carry no pair-id, their fills, and the PAIR_LINK
LinkEvents ==
    { Submit(1, ETHUSDT), Submit(2, ETHUSDC), FullFill(1), PartialFill(2, ETHUSDC),
      PairLink }

LinkPass == Pass(LinkEvents, MaxLinkEvents)

NextLink ==
    \/ LinkPass
    \/ StatsReturn

SpecLink == Init /\ [][NextLink]_vars

\* Number of events of a session in SpecTyped
MaxTypedEvents == 2

\* payload values of the three coerced types
TypedValues == {Num(1), Bool(TRUE), Txt(<<"x">>)}

TypedKeys == {"symbol", "error", "order_id", "pair_id", "latency_ms",
              "last_filled", "price", "reason", "status"}

TypedMessages ==
    [ ORDER_SUBMIT   |-> <<"Submitting", "order">>,
      ORDER_RESPONSE |-> <<"Order", "rejected">>,
      ORDER_FILL     |-> <<"Partial", "fill">>,
      FAST_CHASE     |-> <<"Fast", "chase", "fallback", "triggered">> ]

\* an event of each kind with an order-id and one more key, of any type
TypedEvents ==
    { Ev(sub, TypedMessages[sub],
         [k \in {"order_id", key} |-> IF k = key THEN v ELSE Num(1)]) :
        sub \in DOMAIN TypedMessages, key \in TypedKeys, v \in TypedValues }

TypedPass == Pass(TypedEvents, MaxTypedEvents)

NextTyped ==
    \/ TypedPass
    \/ StatsReturn

SpecTyped == Init /\ [][NextTyped]_vars

\* calculateAggregateStats over lists of sessions
NextAgg ==
    \/ \E s \in AggSessions : AggAddSession(s)
    \/ AggCall

SpecAgg == Init /\ [][NextAgg]_vars

\* the two extractions over sessions of order events
NextDetail ==
    \/ DetailBeginSession
    \/ \E e \in DetailEventSet : DetailEvent(e)
    \/ DetailEndSession
    \/ DetailReturn

SpecDetail == Init /\ [][NextDetail]_vars

\* the page: files are picked, reads resolve or reject in any order
NextApp ==
    \/ \E f \in Files : LoadFile(f)
    \/ \E i \in 1..Len(loads) : ReadResolved(i)
    \/ \E i \in 1..Len(loads) : ReadRejected(i)
    \/ \E a \in {"all", "ETH", "BTC"} : SelectAsset(a)

SpecApp == Init /\ [][NextApp]_vars

----------------------------------------------------------------------------
(* Properties of the statistics pass *)

\* an event without its timestamp
Kind(e) == [e EXCEPT !.timestamp = Date(0)]

IsAudit(e, sub) == e.category # "" /\ e.subcategory = sub

\* the index of the last ORDER_SUBMIT of order id among the first n events of
\* evs, 0 when there is none
LastSubmit(evs, id, n) ==
    LET S == {j \in 1..n : IsAudit(evs[j], "ORDER_SUBMIT")
                           /\ Get(evs[j].data, "order_id") = id}
    IN  IF S = {} THEN 0 ELSE CHOOSE j \in S : \A k \in S : k <= j

\* the session holds a fill of an order that was submitted with pair-id pid
\* and a symbol containing the currency
LegFillRecorded(pid, currency) ==
    LET evs == session.events
    IN  \E i \in 1..Len(evs) :
            /\ IsAudit(evs[i], "ORDER_FILL")
            /\ Truthy(Get(evs[i].data, "order_id"))
            /\ LET j == LastSubmit(evs, Get(evs[i].data, "order_id"), i - 1)
               IN  /\ j > 0
                   /\ Get(evs[j].data, "pair_id") = pid
                   /\ ValueHas(Get(evs[j].data, "symbol"), <<currency>>)

PairIdsSeen ==
    {Get(session.events[i].data, "pair_id") : i \in 1..Len(session.events)} \ {Undef}

\* the session is the two submits, their fills and the PAIR_LINK, each once,
\* each order filled after it was submitted
LinkedPairSession ==
    LET evs    == session.events
        At(k)  == CHOOSE i \in 1..Len(evs) : Kind(evs[i]) = k
    IN  /\ Len(evs) = 5
        /\ {Kind(evs[i]) : i \in 1..Len(evs)} = LinkEvents
        /\ At(Submit(1, ETHUSDT)) < At(FullFill(1))
        /\ At(Submit(2, ETHUSDC)) < At(PartialFill(2, ETHUSDC))

\* C1: a session in which an ETHUSDT order and an ETHUSDC order are submitted
\* and filled, and a PAIR_LINK event ties them to one pair-id, reports
\* orderPairs.attempted = 1 and orderPairs.succeeded = 1.
C1_LinkedPairSucceeds ==
    (pc = "done" /\ LinkedPairSession) =>
        /\ stats.orderPairs.attempted = 1
        /\ stats.orderPairs.succeeded = 1

\* C3: the pass over a session never raises, whatever the type of a payload
\* value.
C3_PassNeverRaises == pc # "raised"

\* C4: a pair-id is counted in orderPairs.succeeded only if the session holds
\* a fill of an order of that pair whose symbol contains USDT and a fill of
\* one whose symbol contains USDC; a leg is marked only by such a fill.
C4_SucceededNeedsBothLegs ==
    /\ \A pid \in DOMAIN pairMap :
          /\ pairMap[pid].usdtFilled => LegFillRecorded(pid, "USDT")
          /\ pairMap[pid].usdcFilled => LegFillRecorded(pid, "USDC")
    /\ pc = "done" =>
          stats.orderPairs.succeeded
            <= Cardinality({pid \in PairIdsSeen :
                               /\ LegFillRecorded(pid, "USDT")
                               /\ LegFillRecorded(pid, "USDC")})

\* a returned pass that counted a succeeded pair
C4_Witness ==
    /\ pc = "done"
    /\ stats.orderPairs.succeeded = 1
    /\ LegFillRecorded(P1, "USDT") /\ LegFillRecorded(P1, "USDC")

\* the step consumes an ORDER_FILL whose order_id is absent or was never
\* registered by an ORDER_SUBMIT of the session
UnmatchedFillStep ==
    /\ pc = "loop"
    /\ Len(session'.events) = Len(session.events) + 1
    /\ LET e == session'.events[Len(session'.events)]
       IN  /\ IsAudit(e, "ORDER_FILL")
           /\ \/ ~Truthy(Get(e.data, "order_id"))
              \/ LastSubmit(session.events, Get(e.data, "order_id"),
                            Len(session.events)) = 0

\* C5: an ORDER_FILL whose order_id is absent or unregistered adds 1 to
\* fills.total, 1 to exactly one of fills.partial and fills.full, its quantity
\* to fills.totalQty, and leaves the order table and the pair table unchanged.
C5_UnmatchedFillFrame ==
    [][ UnmatchedFillStep =>
          /\ stats'.fills.total = stats.fills.total + 1
          /\ stats'.fills.partial >= stats.fills.partial
          /\ stats'.fills.full >= stats.fills.full
          /\ stats'.fills.partial + stats'.fills.full
               = stats.fills.partial + stats.fills.full + 1
          /\ stats'.fills.totalQty.n = stats.fills.totalQty.n
               + FilledQty(session'.events[Len(session'.events)].data).n
          /\ orderMap' = orderMap
          /\ pairMap' = pairMap ]_vars

\* an unregistered fill was consumed while both tables held entries
C5_Witness ==
    /\ pc = "loop"
    /\ session.events # <<>>
    /\ Kind(session.events[Len(session.events)]) = PartialFill(3, ETHUSDT)
    /\ stats.fills.total >= 2
    /\ stats.fills.totalQty.n >= 1
    /\ DOMAIN orderMap # {}
    /\ DOMAIN pairMap # {}

----------------------------------------------------------------------------
(* Properties of the aggregate *)

\* the combination of two aggregates: sums, concatenations in order, and the
\* per-key sum of the fallback reasons; a raise on either side is a raise
Combined(x, y) ==
    IF ~x.ok \/ ~y.ok THEN Raised
    ELSE LET a == x.value
             b == y.value
             Count(m, k) == IF k \in DOMAIN m THEN m[k] ELSE 0
             keys == (DOMAIN a.fastChase.fallbackReasons)
                       \cup (DOMAIN b.fastChase.fallbackReasons)
         IN Returned(
              [ runtime        |-> a.runtime + b.runtime,
                spreadTriggers |-> a.spreadTriggers + b.spreadTriggers,
                orderPairs     |->
                  [ attempted |-> a.orderPairs.attempted + b.orderPairs.attempted,
                    succeeded |-> a.orderPairs.succeeded + b.orderPairs.succeeded ],
                orders         |->
                  [ total     |-> a.orders.total + b.orders.total,
                    accepted  |-> a.orders.accepted + b.orders.accepted,
                    rejected  |-> a.orders.rejected + b.orders.rejected,
                    latencies |-> a.orders.latencies \o b.orders.latencies ],
                fills          |->
                  [ total    |-> a.fills.total + b.fills.total,
                    partial  |-> a.fills.partial + b.fills.partial,
                    full     |-> a.fills.full + b.fills.full,
                    totalQty |-> Num(a.fills.totalQty.n + b.fills.totalQty.n),
                    usdtQty  |-> Num(a.fills.usdtQty.n + b.fills.usdtQty.n),
                    usdcQty  |-> Num(a.fills.usdcQty.n + b.fills.usdcQty.n),
                    prices   |-> a.fills.prices \o b.fills.prices ],
                fastChase      |->
                  [ events    |-> a.fastChase.events + b.fastChase.events,
                    successes |-> a.fastChase.successes + b.fastChase.successes,
                    retries   |-> a.fastChase.retries \o b.fastChase.retries,
                    fallbackReasons |->
                      [k \in keys |-> Count(a.fastChase.fallbackReasons, k)
                                      + Count(b.fastChase.fallbackReasons, k)] ],
                errors         |->
                  [ gtxRejections |-> a.errors.gtxRejections + b.errors.gtxRejections,
                    apiErrors     |-> a.errors.apiErrors + b.errors.apiErrors,
                    timeouts      |-> a.errors.timeouts + b.errors.timeouts,
                    other         |-> a.errors.other + b.errors.other ] ])

----------------------------------------------------------------------------
(* Properties of the page *)

AllLoadsFinished == \A i \in 1..Len(loads) : loads[i].at # "reading"

\* C6: when a second load is started while an earlier one awaits its read,
\* then once both reads have completed the page shows the file requested
\* last.
C6_LatestLoadWins ==
    ( /\ Len(loads) = 2
      /\ loads[2].overlaps
      /\ loads[1].at = "done" /\ loads[2].at = "done" ) =>
        /\ rawContent = loads[2].file.content
        /\ fileInfo = FileInfoOf(loads[2].file)
        /\ events = ParseContent(loads[2].file.content)
        /\ sessions = GroupIntoSessions(ParseContent(loads[2].file.content))

\* C7: a load whose read fails sets a non-empty errorMessage, leaves
\* rawContent, fileInfo, events, sessions and selectedAsset as they were (at
\* its start and at its failure), and leaves isLoading false.
C7_FailedLoadFrame ==
    [][ /\ (Len(loads') = Len(loads) + 1) =>
              UNCHANGED <<rawContent, fileInfo, events, sessions, selectedAsset>>
        /\ (\E i \in 1..Len(loads) :
                loads[i].at = "reading" /\ loads'[i].at = "failed") =>
              /\ errorMessage' # <<>>
              /\ isLoading' = FALSE
              /\ UNCHANGED <<rawContent, fileInfo, events, sessions, selectedAsset>>
      ]_vars

\* a read failed while the page showed a file and a chosen asset
C7_Witness ==
    /\ \E i \in 1..Len(loads) : loads[i].at = "failed"
    /\ AllLoadsFinished
    /\ errorMessage # <<>>
    /\ ~isLoading
    /\ rawContent # <<>>
    /\ sessions # <<>>
    /\ selectedAsset = "ETH"

----------------------------------------------------------------------------
(* Properties of the two extractions *)

AllDetailEvents ==
    LET RECURSIVE Flatten(_)
        Flatten(list) == IF list = <<>> THEN <<>>
                         ELSE Head(list) \o Flatten(Tail(list))
    IN  Flatten(detailEvents)

\* the order-ids that appeared in an ORDER_RESPONSE
ResponseIds ==
    {Get(AllDetailEvents[i].data, "order_id") :
        i \in {j \in 1..Len(AllDetailEvents) :
                  /\ AllDetailEvents[j].subcategory = "ORDER_RESPONSE"
                  /\ Truthy(Get(AllDetailEvents[j].data, "order_id"))}}

\* C8: the list returned by extractOrderDetails holds exactly one row per
\* order-id that appeared in an ORDER_RESPONSE.
C8_OneRowPerOrderId ==
    dpc = "done" =>
        \A id \in ResponseIds :
            Cardinality({i \in 1..Len(orders) : orders[i].orderId = id}) = 1

\* the events of evs that name the order: its responses, fills and states
OrderEvents(evs, id) ==
    {i \in 1..Len(evs) :
        /\ evs[i].subcategory \in {"ORDER_RESPONSE", "ORDER_FILL", "ORDER_STATE"}
        /\ Get(evs[i].data, "order_id") = id}

FillsOf(evs, id) ==
    Cardinality({i \in OrderEvents(evs, id) : evs[i].subcategory = "ORDER_FILL"})

\* the order got one response, an accepted one, and then only fills, one at least
AcceptedThenFilled(evs, id) ==
    LET S     == OrderEvents(evs, id)
        first == CHOOSE i \in S : \A j \in S : i <= j
    IN  /\ S # {}
        /\ evs[first].subcategory = "ORDER_RESPONSE"
        /\ MsgHas(evs[first], <<"Order", "accepted">>)
        /\ \A i \in S \ {first} : evs[i].subcategory = "ORDER_FILL"
        /\ FillsOf(evs, id) >= 1

IsFillRow(r) == r.status \in {"partial", "filled"} /\ r.fillTime # Null

\* every order of evs that was accepted and then filled k times has exactly k
\* rows in rws, all of them fill rows
FillRowsOnly(evs, rws) ==
    \A id \in {Get(evs[i].data, "order_id") : i \in 1..Len(evs)} :
        AcceptedThenFilled(evs, id) =>
            LET R == {i \in 1..Len(rws) : rws[i].orderId = id}
            IN  /\ Cardinality(R) = FillsOf(evs, id)
                /\ \A i \in R : IsFillRow(rws[i])

\* the step of extractOrdersBySession that consumes an ORDER_FILL
RowsFillStep ==
    /\ dpc = "in" /\ dpc' = "in"
    /\ TotalLen(detailEvents') = TotalLen(detailEvents) + 1
    /\ LET cur == detailEvents'[Len(detailEvents')]
       IN  cur[Len(cur)].subcategory = "ORDER_FILL"

\* C9: in extractOrdersBySession every ORDER_FILL appends one fill row
\* (status partial or filled, fillTime the event's timestamp) and removes the
\* first accepted row of the same order-id if there is one; an order that got
\* one accepted response and then k >= 1 fills has exactly k rows, all fill
\* rows, in the pass and in the entry pushed for its session.
C9_FillRows ==
    /\ [](/\ dpc = "in" => FillRowsOnly(detailEvents[Len(detailEvents)], rows)
          /\ \A i \in 1..Len(result) : FillRowsOnly(detailEvents[i], result[i].orders))
    /\ [][ RowsFillStep =>
             LET cur  == detailEvents'[Len(detailEvents')]
                 e    == cur[Len(cur)]
                 id   == Get(e.data, "order_id")
                 acc  == FindAccepted(rows, id)
                 last == rows'[Len(rows')]
             IN  /\ rows' # <<>>
                 /\ last.orderId = id
                 /\ last.fillTime = e.timestamp
                 /\ last.status \in {"partial", "filled"}
                 /\ SubSeq(rows', 1, Len(rows') - 1)
                      = IF acc > 0 THEN RemoveAt(rows, acc) ELSE rows ]_vars

\* an order accepted and then filled twice, in the pass
C9_Witness ==
    /\ dpc = "in"
    /\ AcceptedThenFilled(detailEvents[Len(detailEvents)], Num(1))
    /\ FillsOf(detailEvents[Len(detailEvents)], Num(1)) = 2
    /\ Len(rows) = 2

\* the status an ORDER_STATE event gives: rejected for a GTX-rejection marker,
\* canceled for a cancellation marker, "" for neither
MarkedStatus(e) ==
    IF e.subcategory # "ORDER_STATE" THEN ""
    ELSE IF MsgHas(e, <<"GTX", "rejected">>) THEN "rejected"
    ELSE IF MsgHas(e, <<"canceled">>) THEN "canceled"
    ELSE ""

\* C10: in both extractions, once an ORDER_STATE event with a cancellation or
\* GTX-rejection marker is consumed, every row of the order it names has the
\* status canceled or rejected, whatever its status was.
C10_OrderStateSetsStatus ==
    LET cur == detailEvents[Len(detailEvents)]
        e   == cur[Len(cur)]
        id  == Get(e.data, "order_id")
    IN  ( /\ dpc = "in"
          /\ cur # <<>>
          /\ MarkedStatus(e) # ""
          /\ Truthy(id) ) =>
            /\ \A i \in 1..Len(rows) :
                   rows[i].orderId = id => rows[i].status = MarkedStatus(e)
            /\ \A i \in 1..Len(orders) :
                   orders[i].orderId = id => orders[i].status = MarkedStatus(e)

\* the pair-ids that a PAIR_LINK of evs gives the order, the link coming after
\* an ORDER_RESPONSE of the order (so that a row of it was there to stamp)
LinkedPairIds(evs, id) ==
    {Get(evs[j].data, "pair_id") :
        j \in {k \in 1..Len(evs) :
                  /\ evs[k].subcategory = "PAIR_LINK"
                  /\ \/ Get(evs[k].data, "usdt_order") = id
                     \/ Get(evs[k].data, "usdc_order") = id
                  /\ \E r \in 1..(k - 1) :
                         /\ evs[r].subcategory = "ORDER_RESPONSE"
                         /\ Get(evs[r].data, "order_id") = id}}

\* every row of rws whose order was linked in evs carries a pair-id of a link
StampedRows(evs, rws) ==
    \A i \in 1..Len(rws) :
        LinkedPairIds(evs, rws[i].orderId) # {} =>
            rws[i].pairId \in LinkedPairIds(evs, rws[i].orderId)

\* C11: at the end of the pass every row whose orderId is the usdt_order or
\* usdc_order of a PAIR_LINK seen in the pass carries that event's pair_id, in
\* the entries of extractOrdersBySession (fill rows included) and in the list
\* of extractOrderDetails.
C11_PairLinkStamps ==
    /\ \A s \in 1..Len(result) : StampedRows(detailEvents[s], result[s].orders)
    /\ dpc = "done" => StampedRows(AllDetailEvents, orders)

----------------------------------------------------------------------------
(* The pass over lifecycle markers, spread triggers, submits and plain lines *)

\* Number of events of a session in SpecCount
MaxCountEvents == 4

\* an event of a line without AUDIT tags: the category is cat, no subcategory
Plain(cat, level, asset, msg, data) ==
    [ category |-> cat, subcategory |-> "", level |-> level, asset |-> asset,
      message |-> msg, data |-> data, timestamp |-> Date(0) ]

StartEth == Plain("LIFECYCLE", "INFO", "ETH", StartMarker, [qty |-> Num(1)])
StopEth  == Plain("LIFECYCLE", "INFO", "ETH",
                  <<"StrategyExecutorTask::run", "completed">>, EmptyMap)

SpreadMet == Ev("SPREAD_MET", <<"Spread", "condition", "met">>, [spread |-> Num(1)])

\* a submit whose payload has no order_id
SubmitNoId ==
    Ev("ORDER_SUBMIT", <<"Submitting", "order">>, [symbol |-> ETHUSDT, qty |-> Num(2)])

CountEvents ==
    { StartEth, StopEth, SpreadMet, SubmitNoId, Submit(1, ETHUSDT),
      Plain("", "INFO", "", <<"heartbeat">>, EmptyMap) }

CountPass == Pass(CountEvents, MaxCountEvents)

NextCount ==
    \/ CountPass
    \/ StatsReturn

SpecCount == Init /\ [][NextCount]_vars

\* the number of categorized events of the session with this subcategory
CountOf(sub) ==
    Cardinality({i \in 1..Len(session.events) : IsAudit(session.events[i], sub)})

\* C12: spreadTriggers is the number of categorized SPREAD_MET events of the
\* session and orders.total the number of its categorized ORDER_SUBMIT events,
\* with or without an order-id.
C12_TriggersAndSubmitsCounted ==
    /\ stats.spreadTriggers = CountOf("SPREAD_MET")
    /\ stats.orders.total = CountOf("ORDER_SUBMIT")

\* a start marker, one SPREAD_MET and a stop marker: 1 trigger, 0 orders
C12_Witness ==
    /\ pc = "done"
    /\ Len(session.events) = 3
    /\ Kind(session.events[1]) = StartEth
    /\ Kind(session.events[2]) = SpreadMet
    /\ Kind(session.events[3]) = StopEth
    /\ stats.spreadTriggers = 1
    /\ stats.orders.total = 0

----------------------------------------------------------------------------
(* The page loading one file whose lines are any short stream of events *)

\* Number of lines of a file in SpecGroup
MaxStreamLen == 4

\* the kinds of line of a stream: the two markers of ETH, an event tagged ETH,
\* an event without asset, an event tagged BTC
StreamKinds ==
    { StartEth, StopEth, SpreadMet,
      Plain("", "INFO", "", <<"heartbeat">>, EmptyMap),
      [SpreadMet EXCEPT !.asset = "BTC"] }

\* the lines of a stream, each stamped with its position in the file
StreamLines(kinds) ==
    [i \in 1..Len(kinds) |-> Line([kinds[i] EXCEPT !.timestamp = Date(i)])]

StreamFiles ==
    { [ name |-> "stream.log", size |-> 0, lastModified |-> 0,
        content |-> StreamLines(kinds) ] :
        kinds \in UNION {[1..n -> StreamKinds] : n \in 0..MaxStreamLen} }

\* the page loads one stream
NextGroup ==
    \/ \E f \in StreamFiles : loads = <<>> /\ LoadFile(f)
    \/ \E i \in 1..Len(loads) : ReadResolved(i)

SpecGroup == Init /\ [][NextGroup]_vars

\* evs is one start marker of asset x, then events that are no markers and are
\* tagged x or untagged, then one stop marker of x
OneSpan(evs, x) ==
    /\ Len(evs) >= 2
    /\ IsStart(evs[1]) /\ evs[1].asset = x
    /\ IsStop(evs[Len(evs)]) /\ evs[Len(evs)].asset = x
    /\ \A i \in 2..(Len(evs) - 1) :
          /\ ~IsStart(evs[i]) /\ ~IsStop(evs[i])
          /\ evs[i].asset \in {x, ""}

\* C13: a stream of one start marker for X, N interior events tagged X or
\* untagged, and one stop marker for X is grouped into exactly one session,
\* whose startTime and endTime are the timestamps of the markers and whose
\* events are the N+2 events in encounter order.
C13_OneSpanOneSession ==
    (loads # <<>> /\ loads[1].at = "done" /\ OneSpan(events, "ETH")) =>
        /\ Len(sessions) = 1
        /\ sessions[1].asset = "ETH"
        /\ sessions[1].startTime = events[1].timestamp
        /\ sessions[1].endTime = events[Len(events)].timestamp
        /\ sessions[1].events = events

\* a span with a tagged and an untagged interior event was grouped
C13_Witness ==
    /\ loads # <<>> /\ loads[1].at = "done"
    /\ OneSpan(events, "ETH")
    /\ Len(events) = 4
    /\ \E i \in 2..3 : events[i].asset = ""
    /\ \E i \in 2..3 : events[i].asset = "ETH"
    /\ Len(sessions) = 1
    /\ Len(sessions[1].events) = 4

----------------------------------------------------------------------------
(* stats.js: extractOrderDetails and extractOrdersBySession as functions of
   the list of sessions *)

RECURSIVE FlatFrom(_, _, _)
\* for (const event of session.events) of extractOrderDetails, from event i
FlatFrom(evs, i, acc) ==
    IF i > Len(evs) THEN acc
    ELSE FlatFrom(evs, i + 1,
                  FlatEvent(evs[i], acc.orders, acc.orderMap, acc.pendingSubmits))

RECURSIVE FlatSessionsFrom(_, _, _)
\* for (const session of sessions) of extractOrderDetails: the tables are
\* those of the call, not of the session
FlatSessionsFrom(list, s, acc) ==
    IF s > Len(list) THEN acc
    ELSE FlatSessionsFrom(list, s + 1, FlatFrom(list[s].events, 1, acc))

ExtractOrderDetails(list) ==
    SortBySubmitTime(FlatSessionsFrom(list, 1, Flat(<<>>, EmptyMap, <<>>)).orders)

RECURSIVE RowsFrom(_, _, _)
\* for (const event of session.events) of extractOrdersBySession, from event i
RowsFrom(evs, i, acc) ==
    IF i > Len(evs) THEN acc
    ELSE RowsFrom(evs, i + 1,
                  RowsEvent(evs[i], acc.rows, acc.orderMap, acc.pendingSubmits))

\* the rows of one session before the sort: the three tables start empty
SessionRows(sess) == RowsFrom(sess.events, 1, BySession(<<>>, EmptyMap, <<>>)).rows

RECURSIVE EntriesFrom(_, _, _)
\* for (const session of sessions) of extractOrdersBySession, left at the
\* first session whose summary raises
EntriesFrom(list, s, acc) ==
    IF s > Len(list) THEN Returned(acc)
    ELSE LET st == CalculateSessionStats(list[s])
         IN  IF st.ok
             THEN EntriesFrom(list, s + 1,
                      Append(acc, SessionEntry(list[s], st.value,
                                               SortByFillTime(SessionRows(list[s])))))
             ELSE Raised

ExtractOrdersBySession(list) == EntriesFrom(list, 1, <<>>)

----------------------------------------------------------------------------
(* Properties of the calls as functions of their input *)

\* the sessions the two extractions were given so far
DetailSessions == [s \in 1..Len(detailEvents) |-> DetailSession(detailEvents[s])]

----------------------------------------------------------------------------
(* The pass over error lines, responses and fills *)

\* Number of events of a session in SpecKinds
MaxKindEvents == 3

\* an ERROR line with AUDIT tags whose subcategory processEvent has no case for
AuditError(msg) == [Ev("RISK", msg, EmptyMap) EXCEPT !.level = "ERROR"]

\* an ERROR line without tags
PlainError(msg) == Plain("", "ERROR", "", msg, EmptyMap)

Reply(msg, data) == Ev("ORDER_RESPONSE", msg, data)

Fill(msg, data) == Ev("ORDER_FILL", msg, data)

KindEvents ==
    { AuditError(<<"API", "timeout">>), AuditError(<<"API", "error">>),
      AuditError(<<"failure">>), PlainError(<<"Connection", "timeout">>),
      Submit(1, ETHUSDT),
      Reply(<<"Order", "accepted">>, [order_id |-> Num(1), latency_ms |-> Num(0)]),
      Reply(<<"Order", "rejected">>, [order_id |-> Num(1), latency_ms |-> Num(12)]),
      Reply(<<"Order", "response">>,
            [order_id |-> Num(1), status |-> Txt(<<"NEW">>), latency_ms |-> Num(7)]),
      Reply(<<"Order", "accepted">>, [symbol |-> ETHUSDT]),
      Fill(<<"Partial", "fill">>,
           [order_id |-> Num(1), last_filled |-> Num(0), filled |-> Num(2)]),
      Fill(<<"Partial", "fill">>, [last_filled |-> Num(1), filled |-> Num(2)]),
      Fill(<<"USDT", "order", "filled">>, [filled |-> Num(2), qty |-> Num(5)]),
      Fill(<<"USDT", "order", "filled">>, [qty |-> Num(5)]),
      Fill(<<"USDT", "order", "filled">>, EmptyMap) }

KindPass == Pass(KindEvents, MaxKindEvents)

NextKinds ==
    \/ KindPass
    \/ StatsReturn

SpecKinds == Init /\ [][NextKinds]_vars

----------------------------------------------------------------------------
(* Properties of the pass, per kind of event *)

\* the subcategories processEvent has a case for
HandledSubcategories ==
    { "SPREAD_MET", "ORDER_SUBMIT", "ORDER_RESPONSE", "ORDER_FILL",
      "PARALLEL_ORDER", "PAIR_LINK", "FAST_CHASE", "BALANCE", "ORDER_STATE",
      "ORDER_CANCEL", "ORDER_TIMEOUT" }

\* the step of the pass that consumes an event, and the event it consumes
PassStep == pc = "loop" /\ Len(session'.events) = Len(session.events) + 1

Consumed == session'.events[Len(session'.events)]

\* C15: every ERROR event whose subcategory is not a handled one, tagged or
\* not, adds 1 to exactly one of errors.timeouts, errors.apiErrors and
\* errors.other: timeouts when the message has "timeout", else apiErrors when
\* it has "API", else other.
C15_ErrorsClassified ==
    [][ ( /\ PassStep
          /\ Consumed.level = "ERROR"
          /\ Consumed.subcategory \notin HandledSubcategories ) =>
            LET class == IF MsgHas(Consumed, <<"timeout">>) THEN "timeouts"
                         ELSE IF MsgHas(Consumed, <<"API">>) THEN "apiErrors"
                         ELSE "other"
                Step(k) == IF k = class THEN 1 ELSE 0
            IN  /\ stats'.errors.timeouts = stats.errors.timeouts + Step("timeouts")
                /\ stats'.errors.apiErrors = stats.errors.apiErrors + Step("apiErrors")
                /\ stats'.errors.other = stats.errors.other + Step("other")
      ]_vars

\* the ORDER_RESPONSE events of the session whose payload has a latency field
ResponsesWithLatency ==
    {i \in 1..Len(session.events) :
        /\ IsAudit(session.events[i], "ORDER_RESPONSE")
        /\ "latency_ms" \in DOMAIN session.events[i].data}

\* C16: orders.latencies holds one sample per ORDER_RESPONSE event that
\* carries a latency field, whatever the value (0 included) and the outcome.
C16_LatencySamples ==
    pc # "raised" => Len(stats.orders.latencies) = Cardinality(ResponsesWithLatency)

\* accepted by message or by status field, else rejected by message
ResponseClass(e) ==
    IF \/ MsgHas(e, <<"Order", "accepted">>)
       \/ Get(e.data, "status") \in {Txt(<<"accepted">>), Txt(<<"NEW">>)}
    THEN "accepted"
    ELSE IF MsgHas(e, <<"Order", "rejected">>) THEN "rejected"
    ELSE "none"

\* C17: an ORDER_RESPONSE with an order-id adds 1 to orders.accepted when its
\* message has "Order accepted" or its status is accepted / NEW, 1 to
\* orders.rejected when its message has "Order rejected", and never to both,
\* whether or not an ORDER_SUBMIT registered the order-id.
C17_ResponseClassification ==
    [][ ( /\ PassStep
          /\ IsAudit(Consumed, "ORDER_RESPONSE")
          /\ Truthy(Get(Consumed.data, "order_id")) ) =>
            /\ stats'.orders.accepted = stats.orders.accepted
                 + (IF ResponseClass(Consumed) = "accepted" THEN 1 ELSE 0)
            /\ stats'.orders.rejected = stats.orders.rejected
                 + (IF ResponseClass(Consumed) = "rejected" THEN 1 ELSE 0)
      ]_vars

\* the preferred quantity field of a fill: last_filled when present, else
\* filled when present, else qty when present, else 0
PreferredQty(d) ==
    IF "last_filled" \in DOMAIN d THEN ParseFloat(d["last_filled"]).n
    ELSE IF "filled" \in DOMAIN d THEN ParseFloat(d["filled"]).n
    ELSE IF "qty" \in DOMAIN d THEN ParseFloat(d["qty"]).n
    ELSE 0

\* C18: each ORDER_FILL adds to fills.totalQty its last_filled field whenever
\* that field is present (0 included), else its filled field, else its qty
\* field, else 0.
C18_PreferredQuantity ==
    [][ (PassStep /\ IsAudit(Consumed, "ORDER_FILL")) =>
            stats'.fills.totalQty.n
                = stats.fills.totalQty.n + PreferredQty(Consumed.data)
      ]_vars

----------------------------------------------------------------------------
(* The two extractions over submits, responses and fills of two symbols *)

MatchEvents ==
    { Submit(1, ETHUSDT), Submit(2, ETHUSDC),
      Response(1, ETHUSDT, <<"Order", "accepted">>),
      Response(2, ETHUSDC, <<"Order", "rejected">>),
      Reply(<<"Order", "response">>,
            [order_id |-> Num(1), symbol |-> ETHUSDT, status |-> Txt(<<"NEW">>)]),
      Fill(<<"order", "filled">>,
           [order_id |-> Num(1), fill_type |-> Txt(<<"partial">>),
            last_filled |-> Num(1)]) }

NextMatch ==
    \/ DetailBeginSession
    \/ \E e \in MatchEvents : DetailEvent(e)
    \/ DetailEndSession
    \/ DetailReturn

SpecMatch == Init /\ [][NextMatch]_vars

----------------------------------------------------------------------------
(* Properties of the extractions against the statistics, and of the matching *)

\* the events of the session being read, and the last of them
CurrentEvents == detailEvents[Len(detailEvents)]

LastEvent == CurrentEvents[Len(CurrentEvents)]

\* the statistics pass over the session being read, up to its first n events
PassUpTo(n) ==
    PassFrom(SubSeq(CurrentEvents, 1, n), 1, StartOfPass(DetailSession(CurrentEvents)))

\* C19: the statistics and the detail extraction classify the same event the
\* same way: a fill of a known order is counted in fills.partial exactly when
\* its row gets the status partial, and a response is counted in
\* orders.accepted exactly when its row gets the status accepted.
C19_SameClassification ==
    (dpc = "in" /\ CurrentEvents # <<>>) =>
        LET n      == Len(CurrentEvents)
            e      == LastEvent
            id     == Get(e.data, "order_id")
            before == PassUpTo(n - 1)
            after  == PassUpTo(n)
        IN  /\ ( /\ e.subcategory = "ORDER_FILL"
                 /\ Truthy(id)
                 /\ id \in DOMAIN before.orderMap
                 /\ id \in DOMAIN baseMap
                 /\ id \in DOMAIN flatMap ) =>
                   /\ (after.stats.fills.partial = before.stats.fills.partial + 1)
                        <=> (rows[Len(rows)].status = "partial")
                   /\ (after.stats.fills.partial = before.stats.fills.partial + 1)
                        <=> (orders[flatMap[id]].status = "partial")
            /\ (e.subcategory = "ORDER_RESPONSE" /\ Truthy(id)) =>
                   /\ (after.stats.orders.accepted = before.stats.orders.accepted + 1)
                        <=> (rows[Len(rows)].status = "accepted")
                   /\ (after.stats.orders.accepted = before.stats.orders.accepted + 1)
                        <=> (orders[Len(orders)].status = "accepted")

\* the step of the extractions that consumes an ORDER_RESPONSE with an order-id
ResponseStep ==
    /\ dpc = "in" /\ dpc' = "in"
    /\ TotalLen(detailEvents') = TotalLen(detailEvents) + 1
    /\ LET cur == detailEvents'[Len(detailEvents')]
       IN  /\ cur[Len(cur)].subcategory = "ORDER_RESPONSE"
           /\ Truthy(Get(cur[Len(cur)].data, "order_id"))

\* row is the row of response e, matched first-in first-out against the
\* pending submits before, of which after are left
MatchedFifo(e, row, before, after) ==
    LET S == {i \in 1..Len(before) : before[i].symbol = Get(e.data, "symbol")}
    IN  IF S = {}
        THEN /\ row.submitTime = e.timestamp
             /\ after = before
        ELSE LET k == CHOOSE i \in S : \A j \in S : i <= j
             IN  /\ row.submitTime = before[k].timestamp
                 /\ row.side = before[k].side
                 /\ row.orderType = before[k].orderType
                 /\ row.quantity = before[k].quantity
                 /\ row.price = before[k].price
                 /\ Len(after) = Len(before) - 1
                 /\ \A i \in 1..Len(after) :
                        after[i] = IF i < k THEN before[i] ELSE before[i + 1]

\* the pending submits are submits not taken by a response, oldest first
PendingInOrder(pending, rws) ==
    /\ \A i \in 1..Len(pending), j \in 1..Len(pending) :
           i < j => pending[i].timestamp.d < pending[j].timestamp.d
    /\ \A i \in 1..Len(pending), j \in 1..Len(rws) :
           rws[j].submitTime # pending[i].timestamp

\* the timestamps of the ORDER_SUBMIT events read so far
SubmitTimes ==
    {AllDetailEvents[i].timestamp :
        i \in {j \in 1..Len(AllDetailEvents) :
                  AllDetailEvents[j].subcategory = "ORDER_SUBMIT"}}

\* C20: a response with an order-id and symbol S takes the earliest pending
\* submit of symbol S (its time, side, type, quantity and price) and removes
\* it from the pending ones; without one its own timestamp is the submit time;
\* no submit is taken by two responses.
C20_FifoMatching ==
    /\ []( /\ PendingInOrder(flatPending, orders)
           /\ dpc = "in" => PendingInOrder(rowPending, rows)
           /\ \A i \in 1..Len(orders), j \in 1..Len(orders) :
                  (i # j /\ orders[i].submitTime = orders[j].submitTime)
                      => orders[i].submitTime \notin SubmitTimes )
    /\ [][ ResponseStep =>
             LET cur == detailEvents'[Len(detailEvents')]
                 e   == cur[Len(cur)]
             IN  /\ rows' # <<>> /\ orders' # <<>>
                 /\ MatchedFifo(e, rows'[Len(rows')], rowPending, rowPending')
                 /\ MatchedFifo(e, orders'[Len(orders')], flatPending, flatPending')
         ]_vars

\* two submits of one symbol were pending and a response took the first
C20_Witness ==
    /\ dpc = "in"
    /\ Len(CurrentEvents) = 3
    /\ Kind(CurrentEvents[1]) = Submit(1, ETHUSDT)
    /\ Kind(CurrentEvents[2]) = Submit(1, ETHUSDT)
    /\ LastEvent.subcategory = "ORDER_RESPONSE"
    /\ Len(rows) = 1
    /\ rows[1].submitTime = CurrentEvents[1].timestamp
    /\ Len(rowPending) = 1
    /\ rowPending[1].timestamp = CurrentEvents[2].timestamp

----------------------------------------------------------------------------
(* The pass over rejected responses and ORDER_STATE events *)

\* Number of events of a session in SpecGtx
MaxGtxEvents == 3

GtxMarker == <<"Order", "expired", "(", "GTX", "rejected", ")">>

\* Order 1 is submitted or not; a response is rejected with GTX in its error
\* field, in its message, in both or in neither; one response has no order-id
GtxEvents ==
    { Submit(1, ETHUSDT),
      Reply(<<"Order", "rejected">>,
            [order_id |-> Num(1), error |-> Txt(<<"GTX", "would", "match">>)]),
      Reply(<<"Order", "rejected", "GTX">>, [order_id |-> Num(1)]),
      Reply(<<"Order", "rejected", "GTX">>,
            [order_id |-> Num(1), error |-> Txt(<<"GTX", "would", "match">>)]),
      Reply(<<"Order", "rejected">>,
            [order_id |-> Num(1), error |-> Txt(<<"insufficient", "margin">>)]),
      Reply(<<"Order", "rejected", "GTX">>, [symbol |-> ETHUSDT]),
      OrderState(1, GtxMarker),
      OrderState(1, <<"Order", "canceled">>) }

GtxPass == Pass(GtxEvents, MaxGtxEvents)

NextGtx ==
    \/ GtxPass
    \/ StatsReturn

SpecGtx == Init /\ [][NextGtx]_vars

\* the error field or the message of the event has the word GTX
MentionsGtx(e) ==
    ValueHas(Get(e.data, "error"), <<"GTX">>) \/ MsgHas(e, <<"GTX">>)

\* the statistics after the first n events of the session
StatsAfter(n) ==
    PassFrom(SubSeq(session.events, 1, n), 1, StartOfPass(session)).stats

\* the responses of the session that the pass counted as rejected and that
\* mention GTX
GtxResponses ==
    {i \in 1..Len(session.events) :
        /\ IsAudit(session.events[i], "ORDER_RESPONSE")
        /\ StatsAfter(i).orders.rejected = StatsAfter(i - 1).orders.rejected + 1
        /\ MentionsGtx(session.events[i])}

\* the ORDER_STATE events of the session whose message has the marker
GtxStates ==
    {i \in 1..Len(session.events) :
        /\ IsAudit(session.events[i], "ORDER_STATE")
        /\ MsgHas(session.events[i], <<"GTX", "rejected">>)}

\* C21: a response counted as rejected that mentions GTX in its error field,
\* its message or both adds exactly 1 to errors.gtxRejections, and every
\* ORDER_STATE event whose message has "GTX rejected" adds 1 more, whatever
\* came before: the counter is the number of the former plus the number of
\* the latter, so a rejected response followed by the ORDER_STATE of the same
\* order gives 2.
C21_GtxCountedTwice ==
    /\ [](stats.errors.gtxRejections
            = Cardinality(GtxResponses) + Cardinality(GtxStates))
    /\ [][ PassStep =>
             LET add == stats'.errors.gtxRejections - stats.errors.gtxRejections
             IN  /\ ( /\ IsAudit(Consumed, "ORDER_RESPONSE")
                      /\ stats'.orders.rejected = stats.orders.rejected + 1
                      /\ MentionsGtx(Consumed) ) => add = 1
                 /\ ( /\ IsAudit(Consumed, "ORDER_STATE")
                      /\ MsgHas(Consumed, <<"GTX", "rejected">>) ) => add = 1
         ]_vars

\* order 1 was submitted, rejected with GTX in the error field and in the
\* message, and then reported by ORDER_STATE: the counter is 2
C21_Witness ==
    /\ pc = "done"
    /\ Len(session.events) = 3
    /\ Kind(session.events[1]) = Submit(1, ETHUSDT)
    /\ IsAudit(session.events[2], "ORDER_RESPONSE")
    /\ ValueHas(Get(session.events[2].data, "error"), <<"GTX">>)
    /\ MsgHas(session.events[2], <<"GTX">>)
    /\ Kind(session.events[3]) = OrderState(1, GtxMarker)
    /\ orderMap[Num(1)].status = "rejected"
    /\ stats.orders.rejected = 1
    /\ stats.errors.gtxRejections = 2

----------------------------------------------------------------------------
(* The pass over FAST_CHASE events *)

\* Number of events of a session in SpecChase
MaxChaseEvents == 3

Chase(msg, data) == Ev("FAST_CHASE", msg, data)

EnteringMsg  == <<"Entering", "fast", "chase", "mode">>
CompletedMsg == <<"Fast", "chase", "completed", "successfully">>
FallbackMsg  == <<"Fast", "chase", "fallback", "triggered">>

ChaseEvents ==
    { Chase(EnteringMsg, EmptyMap),
      Chase(CompletedMsg, [retry_count |-> Num(2)]),
      Chase(CompletedMsg, EmptyMap),
      Chase(FallbackMsg, [reason |-> Txt(<<"timeout">>)]),
      Chase(FallbackMsg, EmptyMap),
      Chase(<<"Fast", "chase", "retry">>, [retry_count |-> Num(1)]) }

ChasePass == Pass(ChaseEvents, MaxChaseEvents)

NextChase ==
    \/ ChasePass
    \/ StatsReturn

SpecChase == Init /\ [][NextChase]_vars

\* the FAST_CHASE events of the session whose message has the text
ChaseWith(text) ==
    {i \in 1..Len(session.events) :
        /\ IsAudit(session.events[i], "FAST_CHASE")
        /\ Includes(session.events[i].message, text)}

\* the fallback events whose reason, "unknown" when absent, is r
FallbacksFor(r) ==
    {i \in ChaseWith(<<"fallback">>) :
        LET reason == Get(session.events[i].data, "reason")
        IN  IF reason = Undef THEN r = <<"unknown">> ELSE r = KeyOf(reason)}

\* C22: fastChase.events counts the entering events, fastChase.successes the
\* completed ones, each completed event leaves one retry-count sample, and
\* fallbackReasons counts every fallback event under its reason, or under
\* "unknown" when the reason is absent: the retry samples are as many as the
\* successes and the reason counts sum to the number of fallback events.
C22_FastChaseCounts ==
    LET fc == stats.fastChase
    IN  /\ fc.events = Cardinality(ChaseWith(EnteringMsg))
        /\ fc.successes = Cardinality(ChaseWith(CompletedMsg))
        /\ Len(fc.retries) = fc.successes
        /\ \A r \in DOMAIN fc.fallbackReasons :
               fc.fallbackReasons[r] = Cardinality(FallbacksFor(r))
        /\ \A i \in ChaseWith(<<"fallback">>) :
               \E r \in DOMAIN fc.fallbackReasons : i \in FallbacksFor(r)

----------------------------------------------------------------------------
(* Properties of the pair counts and of the fill counts *)

\* the pair-ids in the payloads of the ORDER_SUBMIT, PARALLEL_ORDER and
\* PAIR_LINK events of the session
ObservedPairIds ==
    {Get(session.events[i].data, "pair_id") :
        i \in {j \in 1..Len(session.events) :
                  /\ session.events[j].category # ""
                  /\ session.events[j].subcategory
                        \in {"ORDER_SUBMIT", "PARALLEL_ORDER", "PAIR_LINK"}
                  /\ Truthy(Get(session.events[j].data, "pair_id"))}}

\* C23: orderPairs.attempted of a session is the number of distinct pair-ids
\* in the payloads of its ORDER_SUBMIT, PARALLEL_ORDER and PAIR_LINK events,
\* each counted once, and orderPairs.succeeded never exceeds it.
C23_AttemptedIsDistinctPairIds ==
    pc = "done" =>
        /\ stats.orderPairs.attempted = Cardinality(ObservedPairIds)
        /\ stats.orderPairs.succeeded <= stats.orderPairs.attempted

----------------------------------------------------------------------------
(* The two extractions over events whose timestamps are in any order *)

\* Number of events, over all sessions, in SpecSort
MaxSortEvents == 3

\* the timestamps an event can carry
Times == {1, 2}

SortEvents ==
    { Submit(1, ETHUSDT),
      Response(1, ETHUSDT, <<"Order", "accepted">>),
      Response(2, ETHUSDC, <<"Order", "response">>),
      FullFill(1) }

\* for (const event of session.events), in both extractions, of an event
\* that carries the timestamp t
DetailEventAt(e, t) ==
    /\ dpc = "in"
    /\ TotalLen(detailEvents) < MaxSortEvents
    /\ LET event == [e EXCEPT !.timestamp = Date(t)]
           f     == FlatEvent(event, orders, flatMap, flatPending)
           b     == RowsEvent(event, rows, baseMap, rowPending)
           n     == Len(detailEvents)
       IN  /\ detailEvents' = [detailEvents EXCEPT ![n] = Append(@, event)]
           /\ orders' = f.orders
           /\ flatMap' = f.orderMap
           /\ flatPending' = f.pendingSubmits
           /\ rows' = b.rows
           /\ baseMap' = b.orderMap
           /\ rowPending' = b.pendingSubmits
    /\ UNCHANGED <<result, dpc>>
    /\ UNCHANGED <<statsVars, aggVars, appVars>>

NextSort ==
    \/ DetailBeginSession
    \/ \E e \in SortEvents, t \in Times : DetailEventAt(e, t)
    \/ DetailEndSession
    \/ DetailReturn

SpecSort == Init /\ [][NextSort]_vars

\* fillTime || submitTime, as a number
RowKey(r) == Or(r.fillTime, r.submitTime).d

\* C24: the flat list returned by extractOrderDetails is in non-decreasing
\* order of submitTime, and every orders list returned by
\* extractOrdersBySession is in non-decreasing order of fillTime when the row
\* has one, else submitTime, whatever the order of the events' timestamps.
C24_ListsSorted ==
    /\ dpc \in {"done", "raised"} =>
           \A i \in 1..Len(orders), j \in 1..Len(orders) :
               i < j => orders[i].submitTime.d <= orders[j].submitTime.d
    /\ \A s \in 1..Len(result) :
           \A i \in 1..Len(result[s].orders), j \in 1..Len(result[s].orders) :
               i < j => RowKey(result[s].orders[i]) <= RowKey(result[s].orders[j])

\* one session whose events came latest first: the response of order 2 at
\* time 2, then the response of order 1 and its fill at time 1; both lists
\* were reordered, the by-session one with the fill row first
C24_Witness ==
    /\ dpc = "done"
    /\ Len(detailEvents) = 1
    /\ Len(detailEvents[1]) = 3
    /\ detailEvents[1][1].timestamp = Date(2)
    /\ detailEvents[1][2].timestamp = Date(1)
    /\ detailEvents[1][3].timestamp = Date(1)
    /\ Kind(detailEvents[1][1]) = Response(2, ETHUSDC, <<"Order", "response">>)
    /\ Kind(detailEvents[1][3]) = FullFill(1)
    /\ Len(orders) = 2
    /\ orders[1].orderId = Num(1) /\ orders[2].orderId = Num(2)
    /\ Len(result[1].orders) = 2
    /\ result[1].orders[1].fillTime = Date(1)
    /\ result[1].orders[1].orderId = Num(1)
    /\ result[1].orders[2].fillTime = Null
    /\ result[1].orders[2].submitTime = Date(2)

----------------------------------------------------------------------------
(* The pass over fills whose quantities are decimal fractions *)

\* Number of events of a session in SpecQty
MaxQtyEvents == 3

\* the numbers 0.1, 0.3 and 0.5 of a payload
Quantities == {Nearest(1, 10), Nearest(3, 10), Nearest(1, 2)}

QtyEvents ==
    { Fill(<<"Partial", "fill">>, [symbol |-> s, last_filled |-> q]) :
        s \in {ETHUSDT, ETHUSDC}, q \in Quantities }
    \cup { Fill(<<"USDT", "order", "filled">>, [filled |-> Nearest(1, 10)]),
           Fill(<<"order", "filled">>,
                [fill_type |-> Txt(<<"partial">>), qty |-> Num(2)]) }

QtyPass == Pass(QtyEvents, MaxQtyEvents)

NextQty ==
    \/ QtyPass
    \/ StatsReturn

SpecQty == Init /\ [][NextQty]_vars

\* C25: after any sequence of events fills.total = fills.partial + fills.full
\* and, the fill quantities being non-negative, fills.usdtQty + fills.usdcQty
\* <= fills.totalQty.
C25_FillTotals ==
    /\ stats.fills.total = stats.fills.partial + stats.fills.full
    /\ NumLE(NumAdd(stats.fills.usdtQty, stats.fills.usdcQty), stats.fills.totalQty)

====
